---- MODULE Spec2Model ----
(***************************************************************************)
(* A model of the PLC simulator (paul-breen/plc-simulator): the memory     *)
(* manager (MemoryManager.py), the Modbus/TCP module (ModbusModule.py,     *)
(* FieldbusMessage.py), the per-connection service loop                    *)
(* (BaseFieldbusModule.py) and the simulation threads (IoManager.py).      *)
(*                                                                         *)
(* Byte buffers (bytearray) are sequences over 0..255, 1-indexed here and  *)
(* 0-indexed in the source.  A Python exception is the "err" field of the  *)
(* record an operation returns.                                            *)
(***************************************************************************)
EXTENDS Integers, Sequences, FiniteSets, TLC

VARIABLES
    memspace,   \* MemoryManager.memspace: section name -> bytearray
    prev,       \* memspace as it was before the last operation
    conn,       \* the handler's socket: "none", "open" or "closed"
    task,       \* the handler's thread: "none", "serving" or "done"
    preset,     \* the last preset single register that was answered with
                \* success, with no write to words16 since
    one_shot,   \* conf['one_shot'] of the module serving the connection
    request,    \* the bytes get_request received for the last request
    response,   \* the bytes sendall sent for the last request (<<>>: none)
    outcome,    \* how the last request ended
    closed_by,  \* why service_client left its loop
    naccepted,  \* connections accepted so far
    call,       \* the last direct MemoryManager call and its result
    ncalls,     \* direct MemoryManager calls made so far
    lock,       \* MemoryManager.lock: the thread that holds it, or "none"
    pc,         \* where each concurrent thread stands
    loc,        \* the local variables of each concurrent thread
    committed,  \* words16 as the completed set_data calls leave it, taken
                \* in the order in which they released the lock
    sockets,    \* the connected sockets of the listener, by connection
    modules     \* the fieldbus module objects: 0 is the module of the
                \* modules table, k the copy made for connection k

\* the sockets and module objects of concurrent connections
net == <<sockets, modules>>

\* the threads of the concurrent specifications and what they share
cvars == <<lock, pc, loc, committed, net>>

vars == <<memspace, prev, conn, task, preset, one_shot, request, response,
          outcome, closed_by, naccepted, call, ncalls, cvars>>

-----------------------------------------------------------------------------
(* Bounds of the model *)

\* memory_manager.memspace.blen of the configuration (bits: rounded up to bytes)
Blen == 12
\* memory_manager.memspace.w16len
W16len == 2
\* memory_manager.memspace.w32len
W32len == 1
\* memory_manager.memspace.w64len
W64len == 1
\* connections the listener accepts in a run
MaxConns == 2
\* direct MemoryManager calls in a run
MaxCalls == 2
\* memory_manager.memspace.w16len of a configuration with a large words16
W16Big == 127
\* ticks of a producer in a run
MaxTicks == 6
\* requests a client sends on one of the concurrent connections
MaxSends == 2
\* writes of another writer during a producer's run
MaxWrites == 2

-----------------------------------------------------------------------------
(* Program constants *)

BITS_PER_BYTE == 8
min_msg_len == 12
byte_nbits == 8
word_nbytes == 2
exception_flag == 128
illegal_function == 1
illegal_data_address == 2
bit_mem_section == "bits"
word_mem_section == "words16"

Byte == 0..255
Sections == {"bits", "words16", "words32", "words64"}

-----------------------------------------------------------------------------
(* Python built-ins the source relies on *)

RECURSIVE Pow2(_)
Pow2(n) == IF n <= 0 THEN 1 ELSE 2 * Pow2(n - 1)

RECURSIVE Pow256(_)
Pow256(n) == IF n <= 0 THEN 1 ELSE 256 * Pow256(n - 1)

\* a & b on non-negative integers
RECURSIVE BitAnd(_, _)
BitAnd(a, b) ==
    IF a = 0 \/ b = 0 THEN 0
    ELSE (a % 2) * (b % 2) + 2 * BitAnd(a \div 2, b \div 2)

\* a | b on non-negative integers
BitOr(a, b) == a + b - BitAnd(a, b)

\* a & ~b on non-negative integers
BitAndNot(a, b) == a - BitAnd(a, b)

\* int.from_bytes(data, byteorder='big')
RECURSIVE from_bytes(_)
from_bytes(data) ==
    IF Len(data) = 0 THEN 0
    ELSE 256 * from_bytes(SubSeq(data, 1, Len(data) - 1)) + data[Len(data)]

\* whether n.to_bytes(length, 'big') raises OverflowError, for n >= 0:
\* n >= 256^length, computed byte by byte
RECURSIVE to_bytes_overflows(_, _)
to_bytes_overflows(n, length) ==
    IF length <= 0 THEN n > 0 ELSE to_bytes_overflows(n \div 256, length - 1)

\* n.to_bytes(length, byteorder='big'), when it does not overflow
RECURSIVE to_bytes(_, _)
to_bytes(n, length) ==
    IF length <= 0 THEN <<>>
    ELSE to_bytes(n \div 256, length - 1) \o <<n % 256>>

\* bytearray(n): n zero bytes
bytearray(n) == [k \in 1..n |-> 0]

\* data.reverse()
reverse(data) == [k \in 1..Len(data) |-> data[Len(data) + 1 - k]]

\* a slice index as Python normalises it against a buffer of n bytes
SliceIndex(i, n) ==
    IF i < 0 THEN (IF i + n < 0 THEN 0 ELSE i + n)
    ELSE (IF i > n THEN n ELSE i)

\* buf[lo:hi], 0-based, negative indices counted from the end
Slice(buf, lo, hi) ==
    LET a == SliceIndex(lo, Len(buf))
        b == SliceIndex(hi, Len(buf))
    IN  IF b <= a THEN <<>> ELSE SubSeq(buf, a + 1, b)

\* buf[lo:hi] = data: the slice is replaced, the buffer resized to fit
SliceAssign(buf, lo, hi, data) ==
    LET a == SliceIndex(lo, Len(buf))
        b0 == SliceIndex(hi, Len(buf))
        b == IF b0 < a THEN a ELSE b0
    IN  SubSeq(buf, 1, a) \o data \o SubSeq(buf, b + 1, Len(buf))

-----------------------------------------------------------------------------
(* MemoryManager *)

\* MemoryManager.__init__
MemoryManagerInit(blen, w16len, w32len, w64len) ==
    LET bits_nbytes == (blen \div BITS_PER_BYTE)
                       + (IF blen % BITS_PER_BYTE > 0 THEN 1 ELSE 0)
    IN  [bits    |-> bytearray(bits_nbytes),
         words16 |-> bytearray(w16len * 2),
         words32 |-> bytearray(w32len * 4),
         words64 |-> bytearray(w64len * 8)]

get_section_word_len(section) ==
    CASE section = "bits" -> 1
      [] section = "words16" -> 2
      [] section = "words32" -> 4
      [] section = "words64" -> 8

\* check_bounds that also refuses a window ending at the end of the section
check_bounds_exclusive(mem, section, addr, nwords) ==
    LET wlen == get_section_word_len(section)
        start_addr == addr * wlen
        end_addr == addr * wlen + nwords * wlen
    IN  ~(start_addr < 0 \/ end_addr >= Len(mem[section]))

\* TRUE when check_bounds returns, FALSE when it raises IndexError
check_bounds(mem, section, addr, nwords) ==
    LET wlen == get_section_word_len(section)
        start_addr == addr * wlen
        end_addr == addr * wlen + nwords * wlen
    IN  ~(start_addr < 0 \/ end_addr > Len(mem[section]))

\* lshift_bits that prepends the zero byte and does not shift
lshift_bits_unshifted(data, n) ==
    LET d == <<0>> \o data
    IN  to_bytes(from_bytes(d), Len(d))

\* lshift_bits(data, n) with truncate=False: a zero byte is prepended first
lshift_bits(data, n) ==
    LET d == <<0>> \o data
    IN  to_bytes(from_bytes(d) * Pow2(n), Len(d))

\* rshift_bits(data, n, truncate=True)
rshift_bits(data, n) ==
    to_bytes(from_bytes(data) \div Pow2(n), Len(data))

\* TRUE when calc_byte_mask raises ValueError
calc_byte_mask_raises(start_bit, end_bit) == end_bit - start_bit > BITS_PER_BYTE

\* calc_byte_mask that selects the whole byte
calc_byte_mask_whole_byte(start_bit, end_bit) ==
    LET start_nbits == start_bit % BITS_PER_BYTE
        end_nbits == end_bit % BITS_PER_BYTE
    IN  255

calc_byte_mask(start_bit, end_bit) ==
    LET start_nbits == start_bit % BITS_PER_BYTE
        end_nbits == end_bit % BITS_PER_BYTE
        start_mask == Pow2(start_nbits) - 1
        end_mask == Pow2(BITS_PER_BYTE) - Pow2(end_nbits + 1)
        mask == (start_mask % 256) + (end_mask % 256)
    IN  255 - (mask % 256)

\* the end_bit calc_masks gives a byte that starts at start_bit
ClipEndBit(end_bit, end_addr) ==
    IF end_bit > end_addr - 1 THEN end_addr - 1 ELSE end_bit

\* the loop of calc_masks: the masks of i more bytes, left to right
RECURSIVE MasksLoop(_, _, _, _)
MasksLoop(i, start_bit, end_bit, end_addr) ==
    IF i = 0 THEN <<>>
    ELSE <<calc_byte_mask(start_bit, end_bit)>>
         \o MasksLoop(i - 1, end_bit + 1,
                      ClipEndBit(end_bit + 1 + BITS_PER_BYTE - 1, end_addr),
                      end_addr)

\* TRUE when a call of calc_byte_mask in the loop of calc_masks raises
RECURSIVE MasksLoopRaises(_, _, _, _)
MasksLoopRaises(i, start_bit, end_bit, end_addr) ==
    IF i = 0 THEN FALSE
    ELSE \/ calc_byte_mask_raises(start_bit, end_bit)
         \/ MasksLoopRaises(i - 1, end_bit + 1,
                            ClipEndBit(end_bit + 1 + BITS_PER_BYTE - 1,
                                       end_addr),
                            end_addr)

\* the number of mask bytes calc_masks builds
MasksNbytes(addr, nbits) ==
    ((addr + nbits) \div BITS_PER_BYTE) - (addr \div BITS_PER_BYTE)
    + (IF (addr + nbits) % BITS_PER_BYTE > 0 THEN 1 ELSE 0)

\* TRUE when calc_masks raises the ValueError of calc_byte_mask
calc_masks_raises(addr, nbits) ==
    LET end_addr == addr + nbits
        nbytes == MasksNbytes(addr, nbits)
        end_bit0 == ((addr + BITS_PER_BYTE) \div BITS_PER_BYTE) * BITS_PER_BYTE - 1
    IN  MasksLoopRaises(nbytes, addr, ClipEndBit(end_bit0, end_addr), end_addr)

calc_masks(addr, nbits) ==
    LET end_addr == addr + nbits
        nbytes == MasksNbytes(addr, nbits)
        end_bit0 == ((addr + BITS_PER_BYTE) \div BITS_PER_BYTE) * BITS_PER_BYTE - 1
    IN  reverse(MasksLoop(nbytes, addr, ClipEndBit(end_bit0, end_addr), end_addr))

\* calc_mem_slice_byte_bounds that counts the bytes from the left end
calc_mem_slice_byte_bounds_from_left(mem, addr, nbits) ==
    LET start_byte == addr \div BITS_PER_BYTE
        end_byte == (addr + nbits) \div BITS_PER_BYTE
        nbytes == end_byte - start_byte
        rem == (addr + nbits) % BITS_PER_BYTE
    IN  IF ~check_bounds(mem, "bits", start_byte, nbytes)
        THEN [err |-> "IndexError", left_byte |-> 0, right_byte |-> 0,
              right_none |-> FALSE]
        ELSE [err |-> "none", left_byte |-> start_byte,
              right_byte |-> IF rem > 0 THEN end_byte + 1 ELSE end_byte,
              right_none |-> FALSE]

\* calc_mem_slice_byte_bounds on the bits section: err = "IndexError" when
\* check_bounds raises; right_none stands for right_byte = None
calc_mem_slice_byte_bounds(mem, addr, nbits) ==
    LET start_byte == addr \div BITS_PER_BYTE
        end_byte == (addr + nbits) \div BITS_PER_BYTE
        nbytes == end_byte - start_byte
        rem == (addr + nbits) % BITS_PER_BYTE
        right0 == (start_byte + 1) * (-1)
        left0 == (end_byte + 1) * (-1)
        right1 == IF rem > 0 THEN right0 + 1 ELSE right0
        left2 == IF rem = 0 THEN left0 + 1 ELSE left0
        right2 == IF rem = 0 THEN right1 + 1 ELSE right1
    IN  IF ~check_bounds(mem, "bits", start_byte, nbytes)
        THEN [err |-> "IndexError", left_byte |-> 0, right_byte |-> 0,
              right_none |-> FALSE]
        ELSE [err |-> "none", left_byte |-> left2, right_byte |-> right2,
              right_none |-> (right2 = 0)]

\* buf[left_byte:right_byte] with the bounds calc_mem_slice_byte_bounds gave
BoundsSlice(buf, b) ==
    Slice(buf, b.left_byte, IF b.right_none THEN Len(buf) ELSE b.right_byte)

\* buf[left_byte:right_byte] = data
BoundsSliceAssign(buf, b, data) ==
    SliceAssign(buf, b.left_byte,
                IF b.right_none THEN Len(buf) ELSE b.right_byte, data)

\* get_data: [err, data]
get_data(mem, section, addr, nwords) ==
    LET wlen == get_section_word_len(section)
    IN  IF ~check_bounds(mem, section, addr, nwords)
        THEN [err |-> "IndexError", data |-> <<>>]
        ELSE [err |-> "none",
              data |-> Slice(mem[section], addr * wlen,
                             addr * wlen + nwords * wlen)]

\* set_data that takes addr and nwords as bytes
set_data_byte_addressed(mem, section, addr, nwords, data) ==
    LET wlen == get_section_word_len(section)
    IN  IF ~check_bounds(mem, section, addr, nwords)
        THEN [err |-> "IndexError", mem |-> mem]
        ELSE [err |-> "none",
              mem |-> [mem EXCEPT ![section] =
                          SliceAssign(mem[section], addr,
                                      addr + nwords, data)]]

\* set_data: [err, mem], mem the memory space afterwards
set_data(mem, section, addr, nwords, data) ==
    LET wlen == get_section_word_len(section)
    IN  IF ~check_bounds(mem, section, addr, nwords)
        THEN [err |-> "IndexError", mem |-> mem]
        ELSE [err |-> "none",
              mem |-> [mem EXCEPT ![section] =
                          SliceAssign(mem[section], addr * wlen,
                                      addr * wlen + nwords * wlen, data)]]

\* get_bits on the bits section: [err, data]
get_bits(mem, addr, nbits) ==
    LET masks == calc_masks(addr, nbits)
        b == calc_mem_slice_byte_bounds(mem, addr, nbits)
        mem_slice == BoundsSlice(mem["bits"], b)
        masked_bits == BitAnd(from_bytes(mem_slice), from_bytes(masks))
        masked == to_bytes(masked_bits, Len(masks))
        shifted == rshift_bits(masked, addr % BITS_PER_BYTE)
        data_len == (nbits \div BITS_PER_BYTE)
                    + (IF nbits % BITS_PER_BYTE > 0 THEN 1 ELSE 0)
    IN  IF b.err # "none" THEN [err |-> b.err, data |-> <<>>]
        ELSE [err |-> "none",
              data |-> Slice(shifted, data_len * (-1), Len(shifted))]

\* set_bits on the bits section: [err, mem]
set_bits(mem, addr, nbits, data) ==
    LET masks == calc_masks(addr, nbits)
        b == calc_mem_slice_byte_bounds(mem, addr, nbits)
        mem_slice == BoundsSlice(mem["bits"], b)
        shifted == lshift_bits(data, addr % BITS_PER_BYTE)
        masks_bits == from_bytes(masks)
        patched_bits == BitOr(BitAnd(from_bytes(shifted), masks_bits),
                              BitAndNot(from_bytes(mem_slice), masks_bits))
    IN  IF b.err # "none" THEN [err |-> b.err, mem |-> mem]
        ELSE IF to_bytes_overflows(patched_bits, Len(masks))
        THEN [err |-> "OverflowError", mem |-> mem]
        ELSE [err |-> "none",
              mem |-> [mem EXCEPT !["bits"] =
                          BoundsSliceAssign(mem["bits"], b,
                                            to_bytes(patched_bits, Len(masks)))]]

-----------------------------------------------------------------------------
(* FieldbusMessage *)

\* FieldbusMessage(blen).buf
FieldbusMessage(blen) == bytearray(blen)

\* reset_buffer() on a message made with FieldbusMessage(blen): buf afterwards
reset_buffer(blen) == bytearray(blen)

\* make_word(start, end) on the buffer buf
make_word(buf, start, end) == from_bytes(Slice(buf, start, end + 1))

\* buf[i] = v, 0-based, for i inside the buffer
SetByte(buf, i, v) == [buf EXCEPT ![i + 1] = v]

\* one conn.recv(nbytes_left, MSG_WAITALL) of recv_fragment (ntries = 1) on a
\* socket whose peer sent the bytes of wire and then closed: the buffer and
\* what is left on the wire
recv_fragment(buf, wire, nbytes) ==
    LET nbytes_left == nbytes - Len(buf)
        n == IF nbytes_left > Len(wire) THEN Len(wire) ELSE nbytes_left
    IN  IF nbytes_left < 1 THEN [buf |-> buf, wire |-> wire]
        ELSE [buf |-> buf \o SubSeq(wire, 1, n),
              wire |-> SubSeq(wire, n + 1, Len(wire))]

-----------------------------------------------------------------------------
(* ModbusModule *)

\* recv_request_fragment: err = "ValueError" when the request is too short
recv_request_fragment(buf, wire, nbytes) ==
    LET r == recv_fragment(buf, wire, nbytes)
    IN  [err |-> IF Len(r.buf) < nbytes THEN "ValueError" ELSE "none",
         buf |-> r.buf, wire |-> r.wire]

\* get_request taking the data of a 0x0f or 0x10 request as received,
\* complete or not
get_request_unchecked_data(wire) ==
    LET r1 == recv_request_fragment(<<>>, wire, min_msg_len)
        r2 == recv_request_fragment(r1.buf, r1.wire, min_msg_len + 1)
        r3 == recv_request_fragment(r2.buf, r2.wire,
                                    min_msg_len + 1 + r2.buf[13])
    IN  IF r1.err # "none" THEN r1
        ELSE IF r1.buf[8] \notin {15, 16} THEN r1
        ELSE IF r2.err # "none" THEN r2
        ELSE [r3 EXCEPT !.err = "none"]

\* get_request: the 12-byte header and, for 0x0f and 0x10, the byte count and
\* that many bytes of data
get_request(wire) ==
    LET r1 == recv_request_fragment(<<>>, wire, min_msg_len)
        r2 == recv_request_fragment(r1.buf, r1.wire, min_msg_len + 1)
        r3 == recv_request_fragment(r2.buf, r2.wire,
                                    min_msg_len + 1 + r2.buf[13])
    IN  IF r1.err # "none" THEN r1
        ELSE IF r1.buf[8] \notin {15, 16} THEN r1
        ELSE IF r2.err # "none" THEN r2
        ELSE r3

\* x | 0x80 on a byte
OrExceptionFlag(x) ==
    IF (x \div exception_flag) % 2 = 1 THEN x ELSE x + exception_flag

construct_exception_response(req, excode) ==
    SetByte(SetByte(req, 7, OrExceptionFlag(req[8])), 8, excode)

\* what a handler hands back: the bytes given to sendall (none when the
\* handler raised), the memory space afterwards, and the error that escaped
Sent(kind, buf, mem) ==
    [outcome |-> kind, response |-> buf, mem |-> mem, err |-> "none"]

Raised(err, mem) ==
    [outcome |-> "raised", response |-> <<>>, mem |-> mem, err |-> err]

\* response.buf[5] = len(response.buf[6:]) and the send; kind tells a success
\* response from an exception response
StampAndSend(kind, buf, mem) ==
    IF Len(buf) - 6 > 255 THEN Raised("ValueError", mem)
    ELSE Sent(kind, SetByte(buf, 5, Len(buf) - 6), mem)

\* ReadResponse copying the first 6 bytes of the request only
ReadResponse_without_unit_id(req, data, data_nbytes, mem) ==
    LET r0 == FieldbusMessage(9 + data_nbytes)
        r1 == SliceAssign(r0, 0, 6, Slice(req, 0, 6))
        r2 == SetByte(r1, 8, data_nbytes)
        r3 == SliceAssign(r2, 9, 9 + data_nbytes + 1, data)
    IN  IF data_nbytes > 255 THEN Raised("ValueError", mem)
        ELSE StampAndSend("success", r3, mem)

\* the success branch the two read handlers share
ReadResponse(req, data, data_nbytes, mem) ==
    LET r0 == FieldbusMessage(9 + data_nbytes)
        r1 == SliceAssign(r0, 0, 8, Slice(req, 0, 8))
        r2 == SetByte(r1, 8, data_nbytes)
        r3 == SliceAssign(r2, 9, 9 + data_nbytes + 1, data)
    IN  IF data_nbytes > 255 THEN Raised("ValueError", mem)
        ELSE StampAndSend("success", r3, mem)

\* the except IndexError branch every handler shares
AddressException(req, mem) ==
    Sent("exception", construct_exception_response(req, illegal_data_address),
         mem)

service_read_coil_status_request(mem, req) ==
    LET addr == make_word(req, 8, 9)
        nbits == make_word(req, 10, 11)
        r == get_bits(mem, addr, nbits)
        data_nbytes == IF nbits % byte_nbits > 0
                       THEN (nbits \div byte_nbits) + 1
                       ELSE nbits \div byte_nbits
    IN  IF r.err = "IndexError" THEN AddressException(req, mem)
        ELSE ReadResponse(req, reverse(r.data), data_nbytes, mem)

\* service_read_holding_registers_request clearing the registers it has read
service_read_holding_registers_request_clearing(mem, req) ==
    LET addr == make_word(req, 8, 9)
        nwords == make_word(req, 10, 11)
        r == get_data(mem, word_mem_section, addr, nwords)
        data_nbytes == nwords * word_nbytes
        cleared == set_data(mem, word_mem_section, addr, nwords,
                            bytearray(data_nbytes)).mem
    IN  IF r.err = "IndexError" THEN AddressException(req, mem)
        ELSE ReadResponse(req, r.data, data_nbytes, cleared)

service_read_holding_registers_request(mem, req) ==
    LET addr == make_word(req, 8, 9)
        nwords == make_word(req, 10, 11)
        r == get_data(mem, word_mem_section, addr, nwords)
        data_nbytes == nwords * word_nbytes
    IN  IF r.err = "IndexError" THEN AddressException(req, mem)
        ELSE ReadResponse(req, r.data, data_nbytes, mem)

\* the tail the write handlers share: w is what set_bits or set_data gave
WriteResponse(req, w, echo) ==
    IF w.err = "IndexError" THEN AddressException(req, w.mem)
    ELSE IF w.err # "none" THEN Raised(w.err, w.mem)
    ELSE StampAndSend("success", echo, w.mem)

\* service_force_single_coil_request handing the value bytes to set_bits in
\* wire order, not reversed
service_force_single_coil_request_unreversed(mem, req) ==
    LET addr == make_word(req, 8, 9)
        data == Slice(req, 10, 10 + 2)
    IN  WriteResponse(req, set_bits(mem, addr, 1, data), req)

service_force_single_coil_request(mem, req) ==
    LET addr == make_word(req, 8, 9)
        data == reverse(Slice(req, 10, 10 + 2))
    IN  WriteResponse(req, set_bits(mem, addr, 1, data), req)

\* service_preset_single_register_request storing the two value bytes in
\* little-endian order
service_preset_single_register_request_swapped(mem, req) ==
    LET addr == make_word(req, 8, 9)
        data == reverse(Slice(req, 10, 10 + 2))
    IN  WriteResponse(req, set_data(mem, word_mem_section, addr, 1, data), req)

service_preset_single_register_request(mem, req) ==
    LET addr == make_word(req, 8, 9)
        data == Slice(req, 10, 10 + 2)
    IN  WriteResponse(req, set_data(mem, word_mem_section, addr, 1, data), req)

service_force_multiple_coils_request(mem, req) ==
    LET addr == make_word(req, 8, 9)
        nbits == make_word(req, 10, 11)
        data_nbytes == req[13]
        data == reverse(Slice(req, 13, 13 + data_nbytes + 1))
    IN  WriteResponse(req, set_bits(mem, addr, nbits, data),
                      SliceAssign(FieldbusMessage(12), 0, 12, Slice(req, 0, 12)))

service_preset_multiple_registers_request(mem, req) ==
    LET addr == make_word(req, 8, 9)
        nwords == make_word(req, 10, 11)
        data_nbytes == req[13]
        data == Slice(req, 13, 13 + data_nbytes + 1)
    IN  WriteResponse(req, set_data(mem, word_mem_section, addr, nwords, data),
                      SliceAssign(FieldbusMessage(12), 0, 12, Slice(req, 0, 12)))

\* service_unknown_request without its restamp of byte 5, as the except
\* branches of the other handlers are
service_unknown_request_unstamped(mem, req) ==
    Sent("exception", construct_exception_response(req, illegal_function), mem)

service_unknown_request(mem, req) ==
    StampAndSend("exception",
                 construct_exception_response(req, illegal_function), mem)

\* the dispatch of process_request on a received request
Dispatch(mem, req) ==
    CASE req[8] = 1 -> service_read_coil_status_request(mem, req)
      [] req[8] = 3 -> service_read_holding_registers_request(mem, req)
      [] req[8] = 5 -> service_force_single_coil_request(mem, req)
      [] req[8] = 6 -> service_preset_single_register_request(mem, req)
      [] req[8] = 15 -> service_force_multiple_coils_request(mem, req)
      [] req[8] = 16 -> service_preset_multiple_registers_request(mem, req)
      [] OTHER -> service_unknown_request(mem, req)

\* Python's None, a value that differs from every integer
None == -1

\* process_request has no return statement: it gives None
process_request_retval == None

\* process_request on the bytes of wire: get_request, then the handler
process_request(mem, wire) ==
    LET g == get_request(wire)
        d == Dispatch(mem, g.buf)
    IN  IF g.err # "none"
        THEN [outcome |-> "short", response |-> <<>>, mem |-> mem,
              err |-> g.err, request |-> g.buf, retval |-> None]
        ELSE [outcome |-> d.outcome,
              response |-> d.response, mem |-> d.mem, err |-> d.err,
              request |-> g.buf, retval |-> process_request_retval]

-----------------------------------------------------------------------------
(* BaseFieldbusModule *)

\* handle_request once select has reported the socket readable: it returns
\* what process_request returned
handle_request(mem, wire) == process_request(mem, wire)

\* handle_request when select times out with nothing to read: retval stays 0
handle_request_timeout(mem) ==
    [outcome |-> "timeout", response |-> <<>>, mem |-> mem, err |-> "none",
     request |-> <<>>, retval |-> 0]

\* TRUE when an exception escaped handle_request into service_client
Escaped(r) == r.outcome \in {"short", "raised", "reset"}

\* why service_client leaves its loop after a handle_request that gave r
\* ("none": it does not leave it)
LoopExit(oneshot, r) ==
    IF Escaped(r) THEN "error"
    ELSE IF oneshot THEN "one_shot"
    ELSE IF r.retval # 0 THEN "retval"
    ELSE "none"

\* the end of service_client, conn.shutdown(SHUT_RDWR) and then conn.close():
\* on a socket the peer has reset shutdown raises OSError (ENOTCONN), the
\* error leaves service_client and close is not reached
CloseBackend(reset) == IF reset THEN "open" ELSE "closed"

-----------------------------------------------------------------------------
(* The requests clients send *)

\* transaction id 0x1234, protocol id 0, unit id 0x11; the length field as
\* the client chose it
Mbap(lenfield) == <<18, 52, 0, 0>> \o lenfield \o <<17>>

\* the two bytes of a 16-bit word, big-endian
Word(n) == <<n \div 256, n % 256>>

\* a length field as a conforming client sets it for a message of n bytes
ProperLen(n) == Word(n - 6)

\* bit windows <<addr, nbits>>: inside one byte, across bytes, the whole
\* section, empty, ending past the section by less and by more than a byte
BitWindows ==
    {<<0, 1>>, <<3, 5>>, <<3, 8>>, <<0, 16>>, <<15, 1>>, <<0, 0>>, <<3, 0>>,
     <<8, 0>>, <<14, 5>>, <<16, 1>>, <<16, 8>>, <<10, 16>>}

\* coil addresses of force single coil
CoilAddrs == {0, 3, 15, 16, 23}

\* word windows <<addr, nwords>> of words16
WordWindows ==
    {<<0, 1>>, <<1, 1>>, <<0, 2>>, <<0, 0>>, <<2, 0>>, <<1, 2>>, <<0, 3>>,
     <<3, 1>>}

\* register addresses of preset single register
RegAddrs == {0, 1, 2, 3}

CoilValues == {<<255, 0>>, <<0, 0>>}
RegValues == {<<0, 123>>, <<165, 60>>}
BitPayloads == {<<>>, <<255>>, <<165>>, <<255, 255>>, <<165, 60>>}
WordPayloads == {<<>>, <<0, 123>>, <<165, 60, 15>>, <<0, 1, 0, 2>>,
                 <<1, 2, 3, 4, 5, 6>>}

\* a 12-byte request
FixedRequest(lenfield, fc, addr, value) ==
    Mbap(lenfield) \o <<fc>> \o Word(addr) \o value

\* a request of 0x0f or 0x10: byte 12 counts the data bytes that follow
VarRequest(lenfield, fc, addr, count, data) ==
    Mbap(lenfield) \o <<fc>> \o Word(addr) \o Word(count) \o <<Len(data)>>
    \o data

\* complete requests with the length field a conforming client sets
ProperRequests ==
    {FixedRequest(ProperLen(12), 1, w[1], Word(w[2])) : w \in BitWindows}
    \cup {FixedRequest(ProperLen(12), 3, w[1], Word(w[2])) : w \in WordWindows}
    \cup {FixedRequest(ProperLen(12), 5, a, v) : a \in CoilAddrs, v \in CoilValues}
    \cup {FixedRequest(ProperLen(12), 6, a, v) : a \in RegAddrs, v \in RegValues}
    \cup {VarRequest(ProperLen(13 + Len(d)), 15, w[1], w[2], d) :
             w \in BitWindows, d \in BitPayloads}
    \cup {VarRequest(ProperLen(13 + Len(d)), 16, w[1], w[2], d) :
             w \in WordWindows, d \in WordPayloads}
    \cup {FixedRequest(ProperLen(12), fc, 0, <<0, 255>>) : fc \in {2, 144}}

\* complete requests whose length field holds something else
OddLenRequests ==
    {FixedRequest(<<1, 2>>, fc, 0, <<0, 1>>) : fc \in {1, 2, 3, 5, 6}}
    \cup {VarRequest(<<1, 2>>, 15, 0, 8, <<255>>),
          VarRequest(<<1, 2>>, 16, 0, 1, <<0, 123>>),
          FixedRequest(<<1, 2>>, 3, 0, <<0, 3>>),
          FixedRequest(<<1, 2>>, 5, 3, <<255, 0>>),
          VarRequest(<<1, 2>>, 16, 1, 2, <<0, 1, 0, 2>>)}

\* a header with another transaction id, a protocol id other than 0 and
\* another unit id
OtherHeader == <<171, 205, 0, 7, 0, 6, 255>>

\* complete requests under that header
OtherHeaderRequests ==
    {OtherHeader \o <<fc>> \o Word(0) \o Word(1) : fc \in {1, 2, 3, 5, 6}}
    \cup {OtherHeader \o <<3>> \o Word(2) \o Word(1),
          OtherHeader \o <<16>> \o Word(0) \o Word(1) \o <<2, 0, 123>>,
          OtherHeader \o <<15>> \o Word(16) \o Word(8) \o <<1, 255>>}

Requests == ProperRequests \cup OddLenRequests \cup OtherHeaderRequests

\* what is on the wire when the client closes before its request is
\* complete: nothing, part of the header, the header of a 0x10 request
\* without its byte count, a 0x0f request with half its data
ShortWires ==
    {<<>>, SubSeq(FixedRequest(ProperLen(12), 3, 0, Word(1)), 1, 5),
     SubSeq(VarRequest(ProperLen(15), 16, 0, 1, <<0, 123>>), 1, 12),
     SubSeq(VarRequest(ProperLen(15), 15, 0, 16, <<255, 255>>), 1, 14)}

-----------------------------------------------------------------------------
(* The state machine of the listener, one connection at a time, and of the
   service loop of the connection's handler *)

\* a call without the call before it
BriefCall(op, section, addr, n, data, err, result) ==
    [op |-> op, section |-> section, addr |-> addr, n |-> n, data |-> data,
     err |-> err, result |-> result]

NoBriefCall == BriefCall("none", "none", 0, 0, <<>>, "none", <<>>)

\* a call and, in last, the call made just before it
CallAfter(c, op, section, addr, n, data, err, result) ==
    [op |-> op, section |-> section, addr |-> addr, n |-> n, data |-> data,
     err |-> err, result |-> result,
     last |-> BriefCall(c.op, c.section, c.addr, c.n, c.data, c.err,
                        c.result)]

NoCall == CallAfter(NoBriefCall, "none", "none", 0, 0, <<>>, "none", <<>>)

NoPreset == [addr |-> -1, value |-> <<>>]

\* no concurrent connections are modelled
NoNet ==
    /\ sockets = <<>>
    /\ modules = <<>>

\* the MemoryManager's lock is free and no concurrent thread is modelled
NoThreads ==
    /\ lock = "none"
    /\ pc = <<>>
    /\ loc = <<>>
    /\ committed = <<>>
    /\ NoNet

Init ==
    /\ memspace = MemoryManagerInit(Blen, W16len, W32len, W64len)
    /\ prev = memspace
    /\ conn = "none"
    /\ task = "none"
    /\ preset = NoPreset
    /\ one_shot \in BOOLEAN
    /\ request = <<>>
    /\ response = <<>>
    /\ outcome = "idle"
    /\ closed_by = "none"
    /\ naccepted = 0
    /\ call = NoCall
    /\ ncalls = 0
    /\ NoThreads

\* Listener.service_client_requests accepts a connection and
\* create_new_backend gives it to a copy of the module, in a new thread
Accept ==
    /\ task \in {"none", "done"}
    /\ naccepted < MaxConns
    /\ conn' = "open"
    /\ task' = "serving"
    /\ naccepted' = naccepted + 1
    /\ request' = <<>>
    /\ response' = <<>>
    /\ outcome' = "idle"
    /\ closed_by' = "none"
    /\ prev' = memspace
    /\ UNCHANGED <<memspace, preset, one_shot, call, ncalls, cvars>>

\* what a pass leaves of the last answered preset single register, r being
\* what handle_request gives up to the handler's sendall and peer what the
\* client has done by then: a preset that was written and answered is the
\* last one; one that was written and met a reset connection, and a preset
\* multiple registers that was written, are writes to words16 since the
\* last one; a request check_bounds refused wrote nothing, whether its
\* exception response could be sent or not, and leaves the last one as it is
PresetAfter(r, peer) ==
    IF r.outcome = "success" /\ r.request[8] = 6
    THEN IF peer = "reset" THEN NoPreset
         ELSE [addr |-> make_word(r.request, 8, 9),
               value |-> Slice(r.request, 10, 12)]
    ELSE IF r.outcome \in {"success", "raised"} /\ r.request[8] = 16
    THEN NoPreset
    ELSE preset

\* what the peer of a connection does once its bytes are on the wire: it
\* stays to read the response or closes with a FIN and nothing unread, so
\* that no reset reaches the socket ("open"); it closes without reading, so
\* that the response is sent and answered with a reset ("gone"); it has
\* closed with a reset before the handler sends ("reset")
Peers == {"open", "gone", "reset"}

\* the handler's conn.sendall(response.buf) after a handle_request that
\* would give r: on a connection the peer has reset it raises
\* ConnectionResetError, which leaves process_request and handle_request
\* with what the handler wrote to the memory written and nothing sent (the
\* outcome "reset")
sendall(r, peer) ==
    IF peer = "reset" /\ r.outcome \in {"success", "exception"}
    THEN [r EXCEPT !.outcome = "reset", !.response = <<>>,
                   !.err = "ConnectionResetError"]
    ELSE r

\* one pass of service_client in which handle_request would give r with
\* the peer there: the loop goes on, or it is left and the socket shut down
\* and closed, unless the peer has reset the connection by then
Serve(r, peer) ==
    LET s == sendall(r, peer)
        exit == LoopExit(one_shot, s)
    IN  /\ task = "serving"
        /\ prev' = memspace
        /\ memspace' = s.mem
        /\ preset' = PresetAfter(r, peer)
        /\ request' = s.request
        /\ response' = s.response
        /\ outcome' = s.outcome
        /\ closed_by' = exit
        /\ task' = IF exit = "none" THEN "serving" ELSE "done"
        /\ conn' = IF exit = "none" THEN "open"
                   ELSE CloseBackend(peer # "open")
        /\ UNCHANGED <<one_shot, naccepted, call, ncalls, cvars>>

\* a client sends a complete request; it may not wait for the response and
\* close, so that the response meets a closed socket and is answered with a
\* reset, or close with a reset before the handler sends
ServiceRequest ==
    \E wire \in Requests, peer \in Peers :
        Serve(handle_request(memspace, wire), peer)

\* a client closes the connection with an incomplete request sent, with a
\* FIN or with a reset
ServiceShortRequest ==
    \E wire \in ShortWires, peer \in {"open", "reset"} :
        Serve(handle_request(memspace, wire), peer)

\* the client sends nothing for the timeout of select
SelectTimeout == Serve(handle_request_timeout(memspace), "open")

Next == Accept \/ ServiceRequest \/ ServiceShortRequest \/ SelectTimeout

Spec == Init /\ [][Next]_vars

-----------------------------------------------------------------------------
(* The same service loop over a memory space with a large words16 section *)

\* word windows <<addr, nwords>> inside and outside a words16 of W16Big words
BigWordWindows ==
    {<<0, 1>>, <<W16Big - 1, 1>>, <<0, W16Big - 1>>, <<1, W16Big - 1>>,
     <<0, W16Big>>, <<W16Big, 1>>, <<0, W16Big + 1>>, <<2, W16Big - 2>>}

BigRegAddrs == {0, 1, W16Big - 1}

BigRequests ==
    {FixedRequest(ProperLen(12), 3, w[1], Word(w[2])) : w \in BigWordWindows}
    \cup {FixedRequest(ProperLen(12), 6, a, v) :
             a \in BigRegAddrs, v \in RegValues}

InitBig ==
    /\ memspace = MemoryManagerInit(Blen, W16Big, W32len, W64len)
    /\ prev = memspace
    /\ conn = "none"
    /\ task = "none"
    /\ preset = NoPreset
    /\ one_shot \in BOOLEAN
    /\ request = <<>>
    /\ response = <<>>
    /\ outcome = "idle"
    /\ closed_by = "none"
    /\ naccepted = 0
    /\ call = NoCall
    /\ ncalls = 0
    /\ NoThreads

ServiceBigRequest ==
    \E wire \in BigRequests : Serve(handle_request(memspace, wire), "open")

NextBig == Accept \/ ServiceBigRequest

SpecBig == InitBig /\ [][NextBig]_vars

-----------------------------------------------------------------------------
(* Direct calls of the MemoryManager, as the IO simulations and the fieldbus
   modules make them *)

\* the sections get_data and set_data are called on
DataSections == Sections

\* windows <<addr, nwords>> of get_data and set_data
DataWindows ==
    {<<0, 1>>, <<1, 1>>, <<0, 2>>, <<0, 0>>, <<1, 2>>, <<-1, 1>>, <<2, 0>>}

\* by how many bytes the data handed to set_data differs from nwords * wlen;
\* the bits section, which get_bits reads as one integer, is given whole
\* windows only
DataLenOffsets(section) == IF section = "bits" THEN {0} ELSE {-1, 0, 2}

\* n bytes of data, none of them zero
DataBytes(n) == [k \in 1..n |-> 16 * k + 1]

\* the data handed to set_data for nwords words of a section
DataChoices(section, nwords) ==
    {DataBytes(nwords * get_section_word_len(section) + d) :
        d \in {x \in DataLenOffsets(section) :
                  nwords * get_section_word_len(section) + x >= 0}}

\* every single bit of the bits section as constructed
SingleBits == {<<k, 1>> : k \in 0..(8 * ((Blen + 7) \div 8) - 1)}

\* the windows <<addr, nbits>> of get_bits and set_bits: those of the
\* requests and the single bits
CallBitWindows == BitWindows \cup SingleBits

\* the windows and data <<addr, nbits, data>> of set_bits: data shorter than,
\* as long as and longer than the window, with bits set above the window
CallBitChoices ==
    {<<w[1], w[2], d>> : w \in BitWindows, d \in BitPayloads \cup {<<1>>}}
    \cup {<<w[1], w[2], d>> : w \in SingleBits, d \in {<<1>>, <<255, 254>>}}

InitMem ==
    /\ Init
    /\ one_shot = FALSE

CallGetData ==
    \E section \in DataSections, w \in DataWindows :
        LET r == get_data(memspace, section, w[1], w[2])
        IN  /\ ncalls < MaxCalls
            /\ ncalls' = ncalls + 1
            /\ prev' = memspace
            /\ call' = CallAfter(call, "get_data", section, w[1], w[2], <<>>,
                                 r.err, r.data)
            /\ UNCHANGED <<memspace, conn, task, preset, one_shot, request,
                           response, outcome, closed_by, naccepted, cvars>>

CallSetData ==
    \E section \in DataSections, w \in DataWindows :
        \E data \in DataChoices(section, w[2]) :
            LET r == set_data(memspace, section, w[1], w[2], data)
            IN  /\ ncalls < MaxCalls
                /\ ncalls' = ncalls + 1
                /\ prev' = memspace
                /\ memspace' = r.mem
                /\ call' = CallAfter(call, "set_data", section, w[1], w[2],
                                     data, r.err, <<>>)
                /\ UNCHANGED <<conn, task, preset, one_shot, request,
                               response, outcome, closed_by, naccepted, cvars>>

CallGetBits ==
    \E w \in CallBitWindows :
        LET r == get_bits(memspace, w[1], w[2])
        IN  /\ ncalls < MaxCalls
            /\ ncalls' = ncalls + 1
            /\ prev' = memspace
            /\ call' = CallAfter(call, "get_bits", "bits", w[1], w[2], <<>>,
                                 r.err, r.data)
            /\ UNCHANGED <<memspace, conn, task, preset, one_shot, request,
                           response, outcome, closed_by, naccepted, cvars>>

CallSetBits ==
    \E c \in CallBitChoices :
        LET w == <<c[1], c[2]>>
            data == c[3]
            r == set_bits(memspace, w[1], w[2], data)
        IN  /\ ncalls < MaxCalls
            /\ ncalls' = ncalls + 1
            /\ prev' = memspace
            /\ memspace' = r.mem
            /\ call' = CallAfter(call, "set_bits", "bits", w[1], w[2], data,
                                 r.err, <<>>)
            /\ UNCHANGED <<conn, task, preset, one_shot, request, response,
                           outcome, closed_by, naccepted, cvars>>

NextMem == CallGetData \/ CallSetData

SpecMem == InitMem /\ [][NextMem]_vars

NextBits == CallGetBits \/ CallSetBits

SpecBits == InitMem /\ [][NextBits]_vars

-----------------------------------------------------------------------------
(* IoManager: the values a simulation produces *)

\* get_next_range_value that wraps only after the stop value
get_next_range_value_inclusive(range_params, value) ==
    LET next_value == value + range_params[3]
    IN  IF range_params[3] < 0
        THEN (IF next_value < range_params[2] THEN range_params[1]
              ELSE next_value)
        ELSE (IF next_value > range_params[2] THEN range_params[1]
              ELSE next_value)

\* get_next_range_value; range_params is <<start, stop, step>>
get_next_range_value(range_params, value) ==
    LET next_value == value + range_params[3]
    IN  IF range_params[3] < 0
        THEN (IF next_value <= range_params[2] THEN range_params[1]
              ELSE next_value)
        ELSE (IF next_value >= range_params[2] THEN range_params[1]
              ELSE next_value)

\* TRUE when value.to_bytes(wlen) in value_to_bytes raises OverflowError
value_to_bytes_raises(value, wlen) ==
    value < 0 \/ to_bytes_overflows(value, wlen)

\* data += b, n times
RECURSIVE Repeat(_, _)
Repeat(b, n) == IF n <= 0 THEN <<>> ELSE b \o Repeat(b, n - 1)

\* value_to_bytes that fills one word only
value_to_bytes_once(value, nwords, wlen) == to_bytes(value, wlen)

value_to_bytes(value, nwords, wlen) == Repeat(to_bytes(value, wlen), nwords)

\* DEFAULTS['range']
range_start == 0
range_step == 1

\* define_range that completes two parameters with the step 1 whatever their
\* order
define_range_always_up(range_params, section) ==
    LET wlen == get_section_word_len(section)
        stop == Pow2(wlen * BITS_PER_BYTE)
    IN  CASE Len(range_params) = 0 -> <<range_start, stop, range_step>>
          [] Len(range_params) = 1 ->
                <<range_start, range_params[1], range_step>>
          [] Len(range_params) = 2 -> range_params \o <<range_step>>
          [] OTHER -> range_params

\* define_range whose default stop is one past the first value that does not
\* fit the word
define_range_wide(range_params, section) ==
    LET wlen == get_section_word_len(section)
        stop == Pow2(wlen * BITS_PER_BYTE) + 1
    IN  CASE Len(range_params) = 0 -> <<range_start, stop, range_step>>
          [] Len(range_params) = 1 ->
                <<range_start, range_params[1], range_step>>
          [] Len(range_params) = 2 ->
                IF range_params[2] < range_params[1]
                THEN range_params \o <<-range_step>>
                ELSE range_params \o <<range_step>>
          [] OTHER -> range_params

\* define_range: the range parameters <<start, stop, step>> of a simulation
\* whose configuration gives range_params
define_range(range_params, section) ==
    LET wlen == get_section_word_len(section)
        stop == Pow2(wlen * BITS_PER_BYTE)
    IN  CASE Len(range_params) = 0 -> <<range_start, stop, range_step>>
          [] Len(range_params) = 1 ->
                <<range_start, range_params[1], range_step>>
          [] Len(range_params) = 2 ->
                IF range_params[2] < range_params[1]
                THEN range_params \o <<-range_step>>
                ELSE range_params \o <<range_step>>
          [] OTHER -> range_params

\* transform_item that writes the state whatever the rule's out
transform_item_passthrough(state, transform) ==
    LET t_out == state
    IN  IF transform.is_list
        THEN (IF transform.in[1] <= state /\ state <= transform.in[2]
              THEN [none |-> FALSE, item |-> t_out]
              ELSE [none |-> TRUE, item |-> 0])
        ELSE (IF state = transform.in[1]
              THEN [none |-> FALSE, item |-> t_out]
              ELSE [none |-> TRUE, item |-> 0])

\* transform_item: [none, item], none for the result None.  transform is
\* [is_list, in, out_null, out]: in is <<lo, hi>> when is_list and <<v>> for
\* a scalar v, out_null stands for out = None
transform_item(state, transform) ==
    LET t_out == IF transform.out_null THEN state ELSE transform.out
    IN  IF transform.is_list
        THEN (IF transform.in[1] <= state /\ state <= transform.in[2]
              THEN [none |-> FALSE, item |-> t_out]
              ELSE [none |-> TRUE, item |-> 0])
        ELSE (IF state = transform.in[1]
              THEN [none |-> FALSE, item |-> t_out]
              ELSE [none |-> TRUE, item |-> 0])

\* get_memspace of the memspace configuration ms = [section, addr, nwords],
\* nwords being nbits for the bits section: [err, data]
get_memspace(mem, ms) ==
    IF ms.section = "bits" THEN get_bits(mem, ms.addr, ms.nwords)
    ELSE get_data(mem, ms.section, ms.addr, ms.nwords)

\* set_memspace: [err, mem]
set_memspace(mem, ms, data) ==
    IF ms.section = "bits" THEN set_bits(mem, ms.addr, ms.nwords, data)
    ELSE set_data(mem, ms.section, ms.addr, ms.nwords, data)

\* simulate_data for the counter, static, copy and transform functions:
\* [err, none, data, counter], none for the result None and counter being
\* sources['counter'] afterwards
simulate_data(mem, conf, counter) ==
    LET wlen == get_section_word_len(conf.section)
        next == IF conf.type = "counter"
                THEN get_next_range_value(conf.range, counter)
                ELSE counter
        buf == get_memspace(mem, conf.source)
        item == transform_item(from_bytes(buf.data), conf.transform)
        value == CASE conf.type = "counter" -> counter
                   [] conf.type = "static" -> conf.value
                   [] conf.type = "transform" -> item.item
        Result(err, none, data) ==
            [err |-> err, none |-> none, data |-> data, counter |-> next]
    IN  CASE conf.type = "copy" -> Result(buf.err, FALSE, buf.data)
          [] conf.type = "transform" /\ buf.err # "none" ->
                Result(buf.err, FALSE, <<>>)
          [] conf.type = "transform" /\ item.none -> Result("none", TRUE, <<>>)
          [] OTHER ->
                IF value_to_bytes_raises(value, wlen)
                THEN Result("OverflowError", FALSE, <<>>)
                ELSE Result("none", FALSE,
                            value_to_bytes(value, conf.nwords, wlen))

-----------------------------------------------------------------------------
(* Producers and a client handler running concurrently.  Each is a thread;
   a step is what a thread does between two points at which another thread
   can run.  The bytes of a slice are copied one at a time, so that what a
   copy sees of a concurrent copy depends on the lock alone. *)

Producers == {"p1", "p2", "p3"}
Clients == {"c1"}
Threads == Producers \cup Clients

\* io_manager.simulations: p1 writes a constant over the whole of words16,
\* p2 counts over the same window up to a value that does not fit a 16-bit
\* word, the window of p3 ends one word past the section
Simulations ==
    [p1 |-> [type |-> "static", value |-> 4386, range |-> <<>>,
             section |-> "words16", addr |-> 0, nwords |-> W16len],
     p2 |-> [type |-> "counter", value |-> 0, range |-> <<65534, 65537, 1>>,
             section |-> "words16", addr |-> 0, nwords |-> W16len],
     p3 |-> [type |-> "static", value |-> 1, range |-> <<>>,
             section |-> "words16", addr |-> W16len - 1, nwords |-> 2]]

\* the windows <<addr, nwords>> of the read holding registers requests
ConcReadWindows == {<<0, W16len>>, <<1, 1>>, <<W16len, 1>>}

\* a thread's locals: sources['counter'], the data being written or read,
\* the bytes copied so far, the window, and whether the thread has completed
\* an operation after a producer had failed
Locals(counter) ==
    [counter |-> counter, data |-> <<>>, idx |-> 0, addr |-> 0, nwords |-> 0,
     after |-> FALSE]

\* DEFAULTS['range']['types']
range_types == {"counter", "randrange"}

\* init_simulation: sources['counter'] afterwards, range[0] of the completed
\* range for the types constrained to a range and the 0 of run_simulation
\* for the others
init_simulation(conf) ==
    IF conf.type \in range_types
    THEN define_range(conf.range, conf.section)[1]
    ELSE 0

InitConc ==
    /\ memspace = MemoryManagerInit(Blen, W16len, W32len, W64len)
    /\ prev = memspace
    /\ conn = "none"
    /\ task = "none"
    /\ preset = NoPreset
    /\ one_shot = FALSE
    /\ request = <<>>
    /\ response = <<>>
    /\ outcome = "idle"
    /\ closed_by = "none"
    /\ naccepted = 0
    /\ call = NoCall
    /\ ncalls = 0
    /\ lock = "none"
    /\ pc = [t \in Threads |-> IF t \in Producers THEN "simulate" ELSE "idle"]
    /\ loc = [t \in Threads |->
                 Locals(IF t \in Producers THEN init_simulation(Simulations[t])
                        ELSE 0)]
    /\ committed = memspace["words16"]
    /\ NoNet

\* an exception leaves the target of a thread: that thread ends
thread_exit_all(pcs, t) == [u \in DOMAIN pcs |-> "dead"]

thread_exit(pcs, t) == [pcs EXCEPT ![t] = "dead"]

\* Lock.acquire that does not wait for the holder
CanAcquire_unlocked(holder) == TRUE

\* Lock.acquire returns when no thread holds the lock
CanAcquire(holder) == holder = "none"

SomeProducerFailed == \E p \in Producers : pc[p] = "dead"

srv == <<prev, conn, task, preset, one_shot, request, response, outcome,
         closed_by, naccepted, call, ncalls, net>>

\* run_simulation: simulate_data gives the data of this tick
Simulate(t) ==
    LET r == simulate_data(memspace, Simulations[t], loc[t].counter)
    IN  /\ t \in Producers
        /\ pc[t] = "simulate"
        /\ IF r.err # "none"
           THEN /\ pc' = thread_exit(pc, t)
                /\ loc' = [loc EXCEPT ![t].counter = r.counter]
           ELSE /\ pc' = [pc EXCEPT ![t] = "check"]
                /\ loc' = [loc EXCEPT ![t].counter = r.counter,
                                      ![t].data = r.data,
                                      ![t].idx = 0,
                                      ![t].addr = Simulations[t].addr,
                                      ![t].nwords = Simulations[t].nwords]
        /\ UNCHANGED <<memspace, lock, committed, srv>>

\* the listener has accepted a connection and its handler has received a
\* read holding registers request
ClientRequest(t) ==
    \E w \in ConcReadWindows :
        /\ t \in Clients
        /\ pc[t] = "idle"
        /\ pc' = [pc EXCEPT ![t] = "check"]
        /\ loc' = [loc EXCEPT ![t].data = <<>>, ![t].idx = 0,
                              ![t].addr = w[1], ![t].nwords = w[2]]
        /\ UNCHANGED <<memspace, lock, committed, srv>>

\* check_bounds at the head of get_data and set_data, before the lock is
\* taken: IndexError ends a producer and gives a client its exception
\* response
CheckBounds(t) ==
    /\ pc[t] = "check"
    /\ IF check_bounds(memspace, "words16", loc[t].addr, loc[t].nwords)
       THEN pc' = [pc EXCEPT ![t] = "acquire"]
       ELSE IF t \in Producers THEN pc' = thread_exit(pc, t)
       ELSE pc' = [pc EXCEPT ![t] = "respond"]
    /\ UNCHANGED <<memspace, lock, loc, committed, srv>>

\* with self.lock: on entry
Acquire(t) ==
    /\ pc[t] = "acquire"
    /\ CanAcquire(lock)
    /\ lock' = t
    /\ pc' = [pc EXCEPT ![t] = "copy"]
    /\ UNCHANGED <<memspace, loc, committed, srv>>

\* set_data: one byte of memspace[section][a:b] = data
CopyIn(t) ==
    LET i == loc[t].idx
        k == 2 * loc[t].addr + i + 1
    IN  /\ t \in Producers
        /\ pc[t] = "copy"
        /\ memspace' = [memspace EXCEPT !["words16"][k] = loc[t].data[i + 1]]
        /\ loc' = [loc EXCEPT ![t].idx = i + 1]
        /\ pc' = IF i + 1 = Len(loc[t].data)
                 THEN [pc EXCEPT ![t] = "release"] ELSE pc
        /\ UNCHANGED <<lock, committed, srv>>

\* get_data: one byte of data = memspace[section][a:b]
CopyOut(t) ==
    LET i == loc[t].idx
        k == 2 * loc[t].addr + i + 1
    IN  /\ t \in Clients
        /\ pc[t] = "copy"
        /\ loc' = [loc EXCEPT ![t].idx = i + 1,
                              ![t].data = loc[t].data
                                          \o <<memspace["words16"][k]>>]
        /\ pc' = IF i + 1 = 2 * loc[t].nwords
                 THEN [pc EXCEPT ![t] = "release"] ELSE pc
        /\ UNCHANGED <<memspace, lock, committed, srv>>

\* with self.lock: on exit.  A producer sleeps for its pause and goes to its
\* next tick; a client handler goes on to send its response
Release(t) ==
    /\ pc[t] = "release"
    /\ lock' = IF lock = t THEN "none" ELSE lock
    /\ committed' = IF t \in Producers
                    THEN SliceAssign(committed, 2 * loc[t].addr,
                                     2 * (loc[t].addr + loc[t].nwords),
                                     loc[t].data)
                    ELSE committed
    /\ pc' = [pc EXCEPT ![t] = IF t \in Producers THEN "simulate"
                               ELSE "respond"]
    /\ loc' = [loc EXCEPT ![t].after = loc[t].after \/ SomeProducerFailed]
    /\ UNCHANGED <<memspace, srv>>

\* the handler sends its response; process_request returns None and
\* service_client closes the connection
Respond(t) ==
    /\ t \in Clients
    /\ pc[t] = "respond"
    /\ pc' = [pc EXCEPT ![t] = "idle"]
    /\ UNCHANGED <<memspace, lock, loc, committed, srv>>

\* the steps a thread takes by itself, once it has something to do
ThreadStep(t) ==
    \/ Simulate(t)
    \/ CheckBounds(t)
    \/ Acquire(t)
    \/ CopyIn(t)
    \/ CopyOut(t)
    \/ Release(t)
    \/ Respond(t)

NextConc == \E t \in Threads : ClientRequest(t) \/ ThreadStep(t)

SpecConc == InitConc /\ [][NextConc]_vars

\* every thread that can take a step is scheduled in the end, and a thread
\* that waits for the lock gets it in the end: the lock is free for the
\* whole pause of each producer
SpecConcLive ==
    /\ SpecConc
    /\ \A t \in Threads : WF_vars(ThreadStep(t)) /\ SF_vars(Acquire(t))

-----------------------------------------------------------------------------
(* What the claims speak of *)

\* bit i (weight 2^i) of a byte
BitOf(byte, i) == (byte \div Pow2(i)) % 2

\* the number of coils a bits buffer holds
NCoils(bits) == BITS_PER_BYTE * Len(bits)

\* coil k of a bits buffer, for k < NCoils(bits): right-to-left addressing
Coil(bits, k) == BitOf(bits[Len(bits) - (k \div BITS_PER_BYTE)], k % BITS_PER_BYTE)

\* the lengths the constructor allocated
AllocatedLen(section) ==
    CASE section = "bits" -> (Blen + 7) \div 8
      [] section = "words16" -> 2 * W16len
      [] section = "words32" -> 4 * W32len
      [] section = "words64" -> 8 * W64len

\* the last pass of the service loop received a complete request and a
\* handler answered it
Answered == outcome \in {"success", "exception"}

\* the last pass received a complete request and gave it to a handler, on
\* a connection the peer had not reset before the handler's sendall
Dispatched == outcome \in {"success", "exception", "raised"}

KnownFunctions == {1, 3, 5, 6, 15, 16}

ReqFc == request[8]
ReqAddr == make_word(request, 8, 9)
ReqCount == make_word(request, 10, 11)
\* the data bytes of a 0x0f or 0x10 request
ReqPayload == SubSeq(request, 14, Len(request))
\* bytes 4-5 of the response as a big-endian 16-bit integer
RespLenField == 256 * response[5] + response[6]

\* the addressed window of the last request lies outside its target section
\* as it was when the request arrived
WindowOutside ==
    CASE ReqFc \in {1, 15} -> ReqAddr + ReqCount > NCoils(prev["bits"])
      [] ReqFc = 5 -> ReqAddr + 1 > NCoils(prev["bits"])
      [] ReqFc \in {3, 16} -> 2 * (ReqAddr + ReqCount) > Len(prev["words16"])
      [] ReqFc = 6 -> 2 * (ReqAddr + 1) > Len(prev["words16"])
      [] OTHER -> FALSE

-----------------------------------------------------------------------------
(* The claims *)

\* C1: without one_shot a connection stays open after a request has been
\* answered (success or exception response), and the server closes the
\* socket only after the client closed, a receive was short or a handler
\* raised.
C1_StaysOpenAfterAnswer ==
    ~one_shot =>
        /\ Answered => task = "serving"
        /\ task = "done" => closed_by = "error"

\* C2: in every reachable state each section has the length the constructor
\* allocated: ceil(blen/8), 2*w16len, 4*w32len, 8*w64len.
C2_SectionLengthsFixed ==
    \A section \in Sections : Len(memspace[section]) = AllocatedLen(section)

\* C3: every exception response has the request's function code with bit 7
\* set at offset 7, one exception code byte at offset 8 as its last byte
\* (9 bytes in all) and an MBAP length field of 3.
C3_ExceptionResponseShape ==
    outcome = "exception" =>
        /\ response[8] = OrExceptionFlag(request[8])
        /\ Len(response) = 9
        /\ response[9] \in {illegal_function, illegal_data_address}
        /\ RespLenField = 3

\* C4: get_bits and set_bits with addr >= 0, nbits >= 0 and
\* addr + nbits > 8 * len(bits) fail with IndexError and leave the bits
\* section as it was.
C4_BitWindowPastEndRaises ==
    (/\ call.op \in {"get_bits", "set_bits"}
     /\ call.addr + call.n > NCoils(prev["bits"]))
    => /\ call.err = "IndexError"
       /\ memspace["bits"] = prev["bits"]

\* C5: in every success response bytes 4-5, read as a big-endian 16-bit
\* integer, equal len(response) - 6.
C5_SuccessLengthField ==
    outcome = "success" => RespLenField = Len(response) - 6

\* C6: set_data with an in-bounds (addr, nwords) and len(data) other than
\* nwords * wlen fails and leaves the section's contents as they were.
C6_SetDataWrongLengthFails ==
    (/\ call.op = "set_data"
     /\ check_bounds(prev, call.section, call.addr, call.n)
     /\ Len(call.data) # call.n * get_section_word_len(call.section))
    => /\ call.err # "none"
       /\ memspace[call.section] = prev[call.section]

\* C7: a preset multiple registers request answered with a success response
\* leaves the request's data bytes in words16 at [2*addr, 2*addr + 2*nwords),
\* every other byte of the memory image as it was, and is answered with the
\* first 12 bytes of the request, the length byte restamped to 6.
C7_PresetMultipleWritesWindow ==
    (Answered /\ ReqFc = 16 /\ outcome = "success") =>
        /\ Slice(memspace["words16"], 2 * ReqAddr, 2 * (ReqAddr + ReqCount))
           = ReqPayload
        /\ Len(memspace["words16"]) = Len(prev["words16"])
        /\ \A k \in 1..Len(prev["words16"]) :
              (k <= 2 * ReqAddr \/ k > 2 * (ReqAddr + ReqCount))
              => memspace["words16"][k] = prev["words16"][k]
        /\ \A section \in Sections \ {"words16"} :
              memspace[section] = prev[section]
        /\ response = SetByte(SubSeq(request, 1, 12), 5, 6)

\* C8: a force multiple coils request answered with a success response
\* leaves coil addr+j (0 <= j < nbits) equal to bit j mod 8 of data byte
\* floor(j/8), every coil outside [addr, addr+nbits) as it was, and is
\* answered with the first 12 bytes of the request, the length byte
\* restamped to 6.
C8_ForceMultipleWritesWindow ==
    (Answered /\ ReqFc = 15 /\ outcome = "success") =>
        /\ \A j \in 0..(ReqCount - 1) :
              (j \div 8) < Len(ReqPayload)
              => /\ ReqAddr + j < NCoils(memspace["bits"])
                 /\ Coil(memspace["bits"], ReqAddr + j)
                    = BitOf(ReqPayload[(j \div 8) + 1], j % 8)
        /\ \A k \in 0..(NCoils(prev["bits"]) - 1) :
              (k < ReqAddr \/ k >= ReqAddr + ReqCount)
              => /\ k < NCoils(memspace["bits"])
                 /\ Coil(memspace["bits"], k) = Coil(prev["bits"], k)
        /\ response = SetByte(SubSeq(request, 1, 12), 5, 6)

\* C9: in each of the six handlers a window outside the target section
\* gives an illegal_data_address exception response and leaves the memory
\* image as it was; any other failure raised in a handler ends the
\* connection without a response.
C9_OutOfBoundsBecomesException ==
    /\ (Answered /\ ReqFc \in KnownFunctions /\ WindowOutside)
       => /\ outcome = "exception"
          /\ response[8] = ReqFc + exception_flag
          /\ response[9] = illegal_data_address
          /\ memspace = prev
    /\ outcome = "raised"
       => /\ response = <<>>
          /\ task = "done"
          /\ closed_by = "error"

\* C10, as claimed: a request with an unknown function code is answered with
\* the first 8 bytes of the request, byte 7 OR-ed with 0x80, then the
\* exception code 0x01 at byte 8; the memory image is not modified.
C10_UnknownFunctionEchoesHeader ==
    (Answered /\ ReqFc \notin KnownFunctions) =>
        /\ SubSeq(response, 1, 8)
           = SetByte(SubSeq(request, 1, 8), 7, OrExceptionFlag(ReqFc))
        /\ response[9] = illegal_function
        /\ memspace = prev

\* C10, amended: a request with an unknown function code is answered with
\* an exception response that echoes bytes 0-4 and 6 of the request, holds
\* len(response) - 6 in byte 5, the function code OR-ed with 0x80 in byte 7
\* and the exception code 0x01 in byte 8; the memory image is not modified.
C10_UnknownFunctionException ==
    (Answered /\ ReqFc \notin KnownFunctions) =>
        /\ outcome = "exception"
        /\ SubSeq(response, 1, 5) = SubSeq(request, 1, 5)
        /\ response[6] = Len(response) - 6
        /\ response[7] = request[7]
        /\ response[8] = OrExceptionFlag(ReqFc)
        /\ response[9] = illegal_function
        /\ memspace = prev

\* C10, witness: an unknown function code was answered, on a request whose
\* length byte is not the one the response carries, after a write has left
\* the memory image non-zero
C10_Witness ==
    /\ Answered
    /\ ReqFc = 2
    /\ request[6] # response[6]
    /\ memspace # MemoryManagerInit(Blen, W16len, W32len, W64len)

\* C11: every read holding registers request with addr and nwords inside
\* words16 is answered with a success response whose byte 8 is 2*nwords and
\* whose payload is the 2*nwords bytes of words16 at
\* [2*addr, 2*addr + 2*nwords), in stored order.
C11_ReadHoldingRegisters ==
    (Dispatched /\ ReqFc = 3 /\ ~WindowOutside) =>
        /\ outcome = "success"
        /\ response[9] = 2 * ReqCount
        /\ SubSeq(response, 10, Len(response))
           = Slice(prev["words16"], 2 * ReqAddr, 2 * (ReqAddr + ReqCount))

\* ceil(n / 8)
CeilBytes(n) == (n + 7) \div 8

\* C12: every read coil status request with its window inside the bits
\* section is answered with a success response that has ceil(nbits/8) at
\* byte 8, that many payload bytes, coil addr+j as bit j mod 8 of payload
\* byte floor(j/8), and zero payload bits beyond nbits.
C12_ReadCoilStatus ==
    (Dispatched /\ ReqFc = 1 /\ ~WindowOutside) =>
        /\ outcome = "success"
        /\ response[9] = CeilBytes(ReqCount)
        /\ Len(response) = 9 + CeilBytes(ReqCount)
        /\ \A j \in 0..(8 * CeilBytes(ReqCount) - 1) :
              BitOf(response[10 + (j \div 8)], j % 8)
              = IF j < ReqCount THEN Coil(prev["bits"], ReqAddr + j) ELSE 0

\* the two value bytes of a force single coil or preset single register
\* request
ReqValue == SubSeq(request, 11, 12)

\* a force single coil request with an in-bounds addr and the value 0xFF00
\* or 0x0000 was given to its handler
ForcedSingleCoil ==
    /\ Dispatched
    /\ ReqFc = 5
    /\ ~WindowOutside
    /\ ReqValue \in {<<255, 0>>, <<0, 0>>}

\* what C13 says of the memory image: the coil at addr is 1 after 0xFF00 and
\* 0 after 0x0000, and every other bit of the bits section is as it was
SingleCoilWritten ==
    /\ outcome = "success"
    /\ Len(memspace["bits"]) = Len(prev["bits"])
    /\ \A k \in 0..(NCoils(prev["bits"]) - 1) :
          Coil(memspace["bits"], k)
          = IF k = ReqAddr THEN (IF ReqValue = <<255, 0>> THEN 1 ELSE 0)
            ELSE Coil(prev["bits"], k)

\* C13, as claimed: a force single coil request with an in-bounds addr writes
\* exactly one bit, 1 after 0xFF00 and 0 after 0x0000, and is answered with a
\* byte-for-byte echo of the 12-byte request.
C13_ForceSingleCoilEchoes ==
    ForcedSingleCoil => (SingleCoilWritten /\ response = request)

\* C13, amended: a force single coil request with an in-bounds addr writes
\* exactly one bit, 1 after 0xFF00 and 0 after 0x0000, and is answered with
\* the 12 bytes of the request, byte 5 restamped with len(response) - 6 = 6.
C13_ForceSingleCoil ==
    ForcedSingleCoil =>
        (SingleCoilWritten /\ response = SetByte(request, 5, Len(request) - 6))

\* C13, witness: a coil that was 0 has been forced to 1 by a request whose
\* length byte is not 6, in a bits section that held other coils at 1
C13_Witness ==
    /\ ForcedSingleCoil
    /\ ReqValue = <<255, 0>>
    /\ Coil(prev["bits"], ReqAddr) = 0
    /\ request[6] # 6
    /\ \E k \in 0..(NCoils(prev["bits"]) - 1) : Coil(prev["bits"], k) = 1

\* a preset single register request with an in-bounds addr was given to its
\* handler
PresetSingleRegister == Dispatched /\ ReqFc = 6 /\ ~WindowOutside

\* what C14 says of the memory image: the two value bytes are the word at
\* words16[addr] and every other word is as it was
SingleRegisterWritten ==
    /\ outcome = "success"
    /\ Len(memspace["words16"]) = Len(prev["words16"])
    /\ \A k \in 1..Len(prev["words16"]) :
          memspace["words16"][k]
          = IF k = 2 * ReqAddr + 1 THEN ReqValue[1]
            ELSE IF k = 2 * ReqAddr + 2 THEN ReqValue[2]
            ELSE prev["words16"][k]
    /\ \A section \in Sections \ {"words16"} :
          memspace[section] = prev[section]

\* a read holding registers request of 1 word at the addr of the last
\* preset single register, with no write to words16 in between, was given
\* to its handler
ReadBackOfPreset ==
    /\ Dispatched
    /\ ReqFc = 3
    /\ ReqCount = 1
    /\ preset # NoPreset
    /\ ReqAddr = preset.addr

\* the read back returns the two bytes that were preset
ReadBackReturnsPreset ==
    ReadBackOfPreset =>
        /\ outcome = "success"
        /\ SubSeq(response, 10, Len(response)) = preset.value

\* C14, as claimed: a preset single register request with an in-bounds addr
\* stores the two value bytes as the word at words16[addr], leaves every
\* other word as it was and is answered with an echo of the request; a
\* following read holding registers of 1 word at that addr returns the two
\* bytes.
C14_PresetSingleRegisterEchoes ==
    /\ PresetSingleRegister => (SingleRegisterWritten /\ response = request)
    /\ ReadBackReturnsPreset

\* C14, amended: as claimed, but the answer is the 12 bytes of the request
\* with byte 5 restamped with len(response) - 6 = 6.
C14_PresetSingleRegister ==
    /\ PresetSingleRegister
       => /\ SingleRegisterWritten
          /\ response = SetByte(request, 5, Len(request) - 6)
    /\ ReadBackReturnsPreset

\* C14, witness: a word that was preset on an earlier connection, by a
\* request whose bytes differ, has been read back
C14_Witness ==
    /\ ReadBackOfPreset
    /\ preset.value = <<165, 60>>
    /\ preset.addr = 1

\* C15: in every response the server sends, bytes 0-1 (transaction id),
\* bytes 2-3 (protocol id) and byte 6 (unit id) are those of the request
\* being answered.
C15_HeaderEchoed ==
    response # <<>> =>
        /\ SubSeq(response, 1, 2) = SubSeq(request, 1, 2)
        /\ SubSeq(response, 3, 4) = SubSeq(request, 3, 4)
        /\ response[7] = request[7]

\* C15, witness: a read under a header with a protocol id other than 0 has
\* been answered with a response built in a fresh buffer
C15_Witness ==
    /\ outcome = "success"
    /\ ReqFc \in {1, 3}
    /\ SubSeq(request, 1, 7) = OtherHeader
    /\ Len(response) > 9

\* the bytes received for a request are fewer than the request needs: the
\* 12-byte header, the 13th byte of a 0x0f or 0x10 request, or its data
Incomplete(req) ==
    \/ Len(req) < min_msg_len
    \/ /\ req[8] \in {15, 16}
       /\ \/ Len(req) < min_msg_len + 1
          \/ Len(req) < min_msg_len + 1 + req[13]

\* the last pass of the service loop found the socket readable and a
\* receive gave fewer bytes than required
ShortReceive == outcome \notin {"idle", "timeout"} /\ Incomplete(request)

\* C18: with one_shot set the handler processes at most one request on a
\* connection and then closes the socket: after the first pass the task is
\* done, no further request is received, and the socket is closed.
C18_OneShotClosesAfterOne ==
    (one_shot /\ outcome # "idle") => (task = "done" /\ conn = "closed")

\* C19: when a receive of a request gives fewer bytes than required the
\* request is not dispatched: no response is sent, the memory image is as
\* it was, and the service loop of the connection is left.
C19_ShortReceiveNotDispatched ==
    ShortReceive =>
        /\ outcome = "short"
        /\ response = <<>>
        /\ memspace = prev
        /\ task = "done"
        /\ closed_by = "error"

\* C19, witness: a force multiple coils request arrived with half its data,
\* after a write had left the memory image non-zero
C19_Witness ==
    /\ ShortReceive
    /\ Len(request) = 14
    /\ request[8] = 15
    /\ ~one_shot
    /\ memspace # MemoryManagerInit(Blen, W16len, W32len, W64len)

\* C20: no path leaves a client task finished with its socket still open.
C20_FinishedTaskClosedSocket ==
    task = "done" => conn = "closed"

\* the bytes of the window of thread t in a words16 buffer
WindowOf(buf, t) ==
    Slice(buf, 2 * loc[t].addr, 2 * (loc[t].addr + loc[t].nwords))

\* the contents of words16 at the points of the serial order of the set_data
\* calls of this configuration: the constructor's, and each producer's data
\* over it
SerialContents ==
    {bytearray(2 * W16len)}
    \cup {value_to_bytes(v, W16len, 2) : v \in {4386, 65534, 65535}}

\* C16: every get_data call returns the bytes its range held at one point
\* of a serial order of the set_data calls: what a reader has copied when it
\* leaves the lock is the range as the completed set_data calls left it,
\* what a handler answers with is the range of one of the serial contents,
\* and with the lock free words16 is what the completed calls left.
C16_NoTornReadOrWrite ==
    /\ \A t \in Clients :
          /\ pc[t] = "release" => loc[t].data = WindowOf(committed, t)
          /\ (pc[t] = "respond" /\ loc[t].idx > 0)
             => \E c \in SerialContents : loc[t].data = WindowOf(c, t)
    /\ lock = "none" => memspace["words16"] = committed

\* C16, witness: a handler has read the whole section between two writes of
\* different producers, while a producer waits for the lock
C16_Witness ==
    /\ pc["c1"] = "release"
    /\ loc["c1"].data = value_to_bytes(65535, W16len, 2)
    /\ pc["p1"] = "acquire"
    /\ pc["p2"] = "dead"

\* a step in which thread t ends was a failure of t's own: its value does
\* not fit its word, or its window is out of bounds
FailsNow(t) ==
    \/ /\ pc[t] = "simulate"
       /\ simulate_data(memspace, Simulations[t], loc[t].counter).err # "none"
    \/ /\ pc[t] = "check"
       /\ ~check_bounds(memspace, "words16", loc[t].addr, loc[t].nwords)

\* C17: when a producer fails only that producer stops: a thread ends only
\* by a failure of its own, a thread that has ended does not hold the lock,
\* the other producer goes on writing for ever and a request a handler has
\* received is answered.
C17_OnlyTheFailedProducerStops ==
    /\ [][\A t \in Threads :
             (pc[t] # "dead" /\ pc'[t] = "dead") => FailsNow(t)]_vars
    /\ [](\A t \in Threads : pc[t] = "dead" => lock # t)
    /\ []<>(pc["p1"] = "release")
    /\ \A t \in Clients : (pc[t] = "check") ~> (pc[t] = "respond")

\* C17, witness: with the two failing producers ended, the remaining
\* producer has written and a handler has read since
C17_Witness ==
    /\ pc["p2"] = "dead"
    /\ pc["p3"] = "dead"
    /\ loc["p1"].after
    /\ loc["c1"].after
    /\ pc["c1"] = "respond"

-----------------------------------------------------------------------------
(* The claims about the bits section *)

\* the window of call c lies inside the bits section of mem and is not empty
ValidBitWindow(c, mem) ==
    /\ c.addr >= 0
    /\ c.n >= 1
    /\ c.addr + c.n <= NCoils(mem["bits"])

\* the low n bits of data, right-aligned in ceil(n/8) bytes, big-endian
LowBits(data, n) == to_bytes(from_bytes(data) % Pow2(n), CeilBytes(n))

\* the last call was get_bits, the call before it set_bits on the same window
GetBitsAfterSetBits ==
    /\ call.op = "get_bits"
    /\ call.last.op = "set_bits"
    /\ call.addr = call.last.addr
    /\ call.n = call.last.n

\* C21: for every valid bit window (addr >= 0, nbits >= 1,
\* addr + nbits <= 8 * len(bits)) and any data, get_bits right after
\* set_bits on the window returns ceil(nbits/8) bytes that hold the low
\* nbits bits of data right-aligned, big-endian, the bits above them zero.
C21_GetBitsReturnsSetBits ==
    (GetBitsAfterSetBits /\ ValidBitWindow(call, prev)) =>
        /\ call.last.err = "none"
        /\ call.err = "none"
        /\ Len(call.result) = CeilBytes(call.n)
        /\ call.result = LowBits(call.last.data, call.n)

\* C21, witness: a window that crosses a byte boundary at an odd offset was
\* written with data that has bits set above the window, and read back
C21_Witness ==
    /\ GetBitsAfterSetBits
    /\ call.addr = 3
    /\ call.n = 8
    /\ call.last.data = <<165, 60>>
    /\ call.result = <<60>>

\* C22: set_bits on a valid window, whatever the data, leaves every bit of
\* the bits section outside the window, the length of the section and the
\* sections words16, words32 and words64 as they were.
C22_SetBitsTouchesOnlyTheWindow ==
    (call.op = "set_bits" /\ ValidBitWindow(call, prev)) =>
        /\ Len(memspace["bits"]) = Len(prev["bits"])
        /\ \A k \in 0..(NCoils(prev["bits"]) - 1) :
               (k < call.addr \/ k >= call.addr + call.n) =>
                   Coil(memspace["bits"], k) = Coil(prev["bits"], k)
        /\ \A section \in Sections \ {"bits"} :
               memspace[section] = prev[section]

\* C22, witness: set_bits with empty data cleared a window in the middle
\* of a section whose bits were all set
C22_Witness ==
    /\ call.op = "set_bits"
    /\ call.addr = 3
    /\ call.n = 5
    /\ call.data = <<>>
    /\ call.err = "none"
    /\ prev["bits"] = <<255, 255>>
    /\ memspace["bits"] = <<255, 7>>

\* the last call was set_bits(k, 1, [1]) on an all-zero bits section
SingleBitSetOnZeros ==
    /\ call.op = "set_bits"
    /\ call.n = 1
    /\ call.data = <<1>>
    /\ ValidBitWindow(call, prev)
    /\ \A i \in 1..Len(prev["bits"]) : prev["bits"][i] = 0

\* C23: bit addresses run from right to left: set_bits(k, 1, [1]) on an
\* all-zero section leaves the byte at index len(bits) - 1 - floor(k/8)
\* equal to 2^(k mod 8) and every other byte zero.
C23_RightToLeftBitAddresses ==
    SingleBitSetOnZeros =>
        /\ call.err = "none"
        /\ memspace["bits"] =
               [i \in 1..Len(prev["bits"]) |->
                   IF i - 1 = Len(prev["bits"]) - 1 - (call.addr \div 8)
                   THEN Pow2(call.addr % 8) ELSE 0]

\* C23, witness: bit 3 was set on the all-zero section and the last byte
\* is 8
C23_Witness ==
    /\ SingleBitSetOnZeros
    /\ call.addr = 3
    /\ Len(memspace["bits"]) >= 2
    /\ memspace["bits"][Len(memspace["bits"])] = 8

-----------------------------------------------------------------------------
(* The claims about get_data and set_data *)

\* the first byte of the window of call c and the byte after its last
WindowStart(c) == c.addr * get_section_word_len(c.section)
WindowEnd(c) == (c.addr + c.n) * get_section_word_len(c.section)

\* the window of call c lies inside its section of mem
InBounds(c, mem) ==
    /\ c.n >= 0
    /\ WindowStart(c) >= 0
    /\ WindowEnd(c) <= Len(mem[c.section])

\* call c is set_data with data of exactly nwords * wlen bytes
ExactSetData(c) ==
    /\ c.op = "set_data"
    /\ Len(c.data) = c.n * get_section_word_len(c.section)

\* the last call was get_data, the call before it set_data of the same
\* window with data of the length of the window
GetDataAfterSetData ==
    /\ call.op = "get_data"
    /\ ExactSetData(call.last)
    /\ call.section = call.last.section
    /\ call.addr = call.last.addr
    /\ call.n = call.last.n

\* C24: for every section, every in-bounds (addr, nwords) and data of
\* exactly nwords * wlen bytes, set_data leaves every byte outside the
\* window and every other section as they were, and get_data of the same
\* window right after it returns data.
C24_GetDataReturnsSetData ==
    /\ (ExactSetData(call) /\ InBounds(call, prev)) =>
           /\ call.err = "none"
           /\ Len(memspace[call.section]) = Len(prev[call.section])
           /\ \A i \in 1..Len(prev[call.section]) :
                  (i <= WindowStart(call) \/ i > WindowEnd(call)) =>
                      memspace[call.section][i] = prev[call.section][i]
           /\ \A section \in Sections \ {call.section} :
                  memspace[section] = prev[section]
    /\ (GetDataAfterSetData /\ InBounds(call, prev)) =>
           /\ call.last.err = "none"
           /\ call.err = "none"
           /\ call.result = call.last.data

\* C24, witness: the second word of words16 was written and read back
C24_Witness ==
    /\ GetDataAfterSetData
    /\ call.section = "words16"
    /\ call.addr = 1
    /\ call.n = 1
    /\ call.result = <<17, 33>>
    /\ memspace["words16"][3] = 17
    /\ memspace["words16"][4] = 33

\* C25: get_data and set_data with addr * wlen < 0 or
\* addr * wlen + nwords * wlen > len(section) fail with IndexError and leave
\* the memory space as it was; a call whose window ends exactly at
\* len(section) is accepted.
C25_OutOfBoundsRaisesIndexError ==
    call.op \in {"get_data", "set_data"} =>
        /\ (WindowStart(call) < 0
            \/ WindowEnd(call) > Len(prev[call.section])) =>
               /\ call.err = "IndexError"
               /\ memspace = prev
        /\ (InBounds(call, prev)
            /\ WindowEnd(call) = Len(prev[call.section])) =>
               call.err = "none"

\* C25, witness: a set_data past the end of its section failed and a
\* get_data of a non-empty window ending at the end of its section returned
C25_Witness ==
    /\ call.last.op = "set_data"
    /\ call.last.err = "IndexError"
    /\ WindowStart(call.last) >= 0
    /\ call.op = "get_data"
    /\ call.n >= 1
    /\ WindowEnd(call) = Len(memspace[call.section])
    /\ call.err = "none"

-----------------------------------------------------------------------------
(* One producer of the IoManager, ticking while another writer (a handler
   serving a write request, or another producer) writes words now and then.
   A tick is one pass of the loop of run_simulation, in two steps:
   simulate_data, and then set_memspace; the other writer may write between
   them. *)

\* a memspace configuration
Memspace(section, addr, nwords) ==
    [section |-> section, addr |-> addr, nwords |-> nwords]

NoSource == Memspace("words16", 0, 0)

\* a transform rule: in = v, or in = [lo, hi] when the sequence has two
\* elements; out = None when out_null
Rule(in, out_null, out) ==
    [is_list |-> Len(in) = 2, in |-> in, out_null |-> out_null, out |-> out]

NoRule == Rule(<<0>>, TRUE, 0)

\* a simulation's configuration; section, addr, nwords are conf['memspace']
Simulation(type, range, value, target, source, transform) ==
    [type |-> type, range |-> range, value |-> value,
     section |-> target.section, addr |-> target.addr,
     nwords |-> target.nwords, source |-> source, transform |-> transform]

\* the ranges of the counter simulations: given in full, in part and not at
\* all; counting up and down; empty; with values that do not fit the word
CounterRanges ==
    {<<0, 4, 1>>, <<5, 5, 1>>, <<5, 1, -2>>, <<65534, 65537, 1>>, <<>>,
     <<3>>, <<2, 0>>, <<0, 4, 3>>, <<4, 0, 1>>, <<-1, 2, 1>>, <<1, 4, 0>>}

\* the ranges of the randrange simulations: given in part and in full,
\* downwards, empty
RandRanges == {<<3>>, <<2, 0>>, <<1, 5, 2>>, <<2, 2, 1>>}

\* the rules of the transform simulations
Rules ==
    {Rule(<<5>>, FALSE, 9), Rule(<<2, 6>>, TRUE, 0), Rule(<<2, 6>>, FALSE, 0),
     Rule(<<7>>, TRUE, 0), Rule(<<0, 65536>>, TRUE, 0)}

\* io_manager.simulations, one of them per run
SimConfs ==
    {Simulation("counter", r, 0, Memspace("words16", 0, 1), NoSource, NoRule) :
        r \in CounterRanges}
    \cup {Simulation("counter", <<0, 4, 1>>, 0, Memspace("words32", 0, 1),
                     NoSource, NoRule)}
    \cup {Simulation("static", <<>>, v, Memspace("words16", 0, W16len),
                     NoSource, NoRule) : v \in {4386, 0, 65536, -1}}
    \cup {Simulation("static", <<>>, 258, w, NoSource, NoRule) :
            w \in {Memspace("words16", 1, 1), Memspace("words32", 0, 1),
                   Memspace("words16", W16len - 1, 2)}}
    \cup {Simulation("transform", <<>>, 0, Memspace("words16", 0, 1),
                     Memspace(sec, IF sec = "words16" THEN 1 ELSE 0, 1), r) :
            sec \in {"words16", "words32"}, r \in Rules}
    \cup {Simulation("copy", <<>>, 0, Memspace("words16", 0, 1),
                     Memspace("words16", 1, 1), NoRule)}
    \cup {Simulation("randrange", r, 0, Memspace("words16", 0, 1),
                     NoSource, NoRule) : r \in RandRanges}

\* the words the other writer writes: <<section, addr>>
OtherWords == {<<"words16", 1>>, <<"words32", 0>>}

\* the values the other writer writes
OtherValues == {5, 7, 65536}

\* init_simulation's change of the configuration: the range is completed
init_simulation_conf(conf) ==
    IF conf.type \in range_types
    THEN [conf EXCEPT !.range = define_range(conf.range, conf.section)]
    ELSE conf

\* the locals of the thread of run_simulation and what it has done: conf,
\* sources['counter'], the passes of the loop made, the writes of the other
\* writer, the passes made since the last of them, the data written so far,
\* the data simulate_data returned to the pass under way, and the source
\* word the last transform read
SimLocals(conf) ==
    [conf |-> init_simulation_conf(conf),
     counter |-> init_simulation(conf),
     nticks |-> 0, nwrites |-> 0, since |-> 0, emitted |-> <<>>,
     data |-> <<>>, state |-> 0]

InitSim ==
    /\ memspace = MemoryManagerInit(Blen, W16len, W32len, W64len)
    /\ prev = memspace
    /\ conn = "none"
    /\ task = "none"
    /\ preset = NoPreset
    /\ one_shot = FALSE
    /\ request = <<>>
    /\ response = <<>>
    /\ outcome = "idle"
    /\ closed_by = "none"
    /\ naccepted = 0
    /\ call = NoCall
    /\ ncalls = 0
    /\ lock = "none"
    /\ pc = [t \in {"sim"} |-> "simulate"]
    /\ \E conf \in SimConfs : loc = [t \in {"sim"} |-> SimLocals(conf)]
    /\ committed = <<>>
    /\ NoNet

\* the values random.randrange(start, stop, step) may return: those of
\* range(start, stop, step)
randrange_values(range) ==
    IF range[3] = 0 THEN {}
    ELSE {v \in (IF range[3] > 0 THEN range[1]..range[2]
                 ELSE range[2]..range[1]) :
             /\ (v - range[1]) % (IF range[3] > 0 THEN range[3]
                                  ELSE -range[3]) = 0
             /\ IF range[3] > 0 THEN range[1] <= v /\ v < range[2]
                ELSE range[2] < v /\ v <= range[1]}

\* the results simulate_data may give: the one result of the functions that
\* draw no random number, and for randrange one for each value
\* random.randrange may return, ValueError if there is none
simulate_data_results(mem, conf, counter) ==
    LET wlen == get_section_word_len(conf.section)
        Result(err, data) ==
            [err |-> err, none |-> FALSE, data |-> data, counter |-> counter]
    IN  IF conf.type # "randrange" THEN {simulate_data(mem, conf, counter)}
        ELSE IF randrange_values(conf.range) = {}
        THEN {Result("ValueError", <<>>)}
        ELSE {IF value_to_bytes_raises(v, wlen)
              THEN Result("OverflowError", <<>>)
              ELSE Result("none", value_to_bytes(v, conf.nwords, wlen)) :
                 v \in randrange_values(conf.range)}

\* the source word a transform reads in a pass on mem
source_word(mem, conf) == from_bytes(get_memspace(mem, conf.source).data)

\* a pass of the loop of run_simulation up to the return of simulate_data,
\* which for copy and transform has read the source with the lock taken and
\* released: the pass goes on to set_memspace unless the data is None; an
\* exception ends the thread
TickSimulate ==
    LET l == loc["sim"]
        read == [l EXCEPT !.state = IF l.conf.type = "transform"
                                    THEN source_word(memspace, l.conf)
                                    ELSE @]
    IN  /\ pc["sim"] = "simulate"
        /\ l.nticks < MaxTicks
        /\ prev' = memspace
        /\ memspace' = memspace
        /\ \E r \in simulate_data_results(memspace, l.conf, l.counter) :
              LET passed == [read EXCEPT !.counter = r.counter,
                                         !.nticks = @ + 1, !.since = @ + 1]
              IN  CASE r.err # "none" ->
                         /\ pc' = thread_exit(pc, "sim")
                         /\ outcome' = "failed"
                         /\ loc' = [loc EXCEPT !["sim"] = passed]
                    [] r.err = "none" /\ r.none ->
                         /\ pc' = pc
                         /\ outcome' = "skipped"
                         /\ loc' = [loc EXCEPT !["sim"] = passed]
                    [] OTHER ->
                         /\ pc' = [pc EXCEPT !["sim"] = "write"]
                         /\ outcome' = "simulated"
                         /\ loc' = [loc EXCEPT !["sim"] =
                                       [read EXCEPT !.counter = r.counter,
                                                    !.data = r.data]]
        /\ UNCHANGED <<conn, task, preset, one_shot, request, response,
                       closed_by, naccepted, call, ncalls, lock, committed,
                       net>>

\* the rest of the pass: set_memspace writes the data simulate_data
\* returned, taking the lock again; an exception ends the thread
TickWrite ==
    LET l == loc["sim"]
        w == set_memspace(memspace,
                          Memspace(l.conf.section, l.conf.addr, l.conf.nwords),
                          l.data)
        passed == [l EXCEPT !.nticks = @ + 1, !.since = @ + 1, !.data = <<>>]
    IN  /\ pc["sim"] = "write"
        /\ prev' = memspace
        /\ IF w.err # "none"
           THEN /\ pc' = thread_exit(pc, "sim")
                /\ outcome' = "failed"
                /\ loc' = [loc EXCEPT !["sim"] = passed]
                /\ memspace' = memspace
           ELSE /\ pc' = [pc EXCEPT !["sim"] = "simulate"]
                /\ outcome' = "written"
                /\ loc' = [loc EXCEPT !["sim"] =
                              [passed EXCEPT !.emitted = Append(@, l.data)]]
                /\ memspace' = w.mem
        /\ UNCHANGED <<conn, task, preset, one_shot, request, response,
                       closed_by, naccepted, call, ncalls, lock, committed,
                       net>>

\* one pass of the loop of run_simulation, in its two steps
Tick == TickSimulate \/ TickWrite

\* the other writer sets one word
OtherWrite ==
    \E word \in OtherWords, v \in OtherValues :
        LET wlen == get_section_word_len(word[1])
            w == set_data(memspace, word[1], word[2], 1, to_bytes(v, wlen))
        IN  /\ loc["sim"].nwrites < MaxWrites
            /\ ~value_to_bytes_raises(v, wlen)
            /\ w.err = "none"
            /\ prev' = memspace
            /\ memspace' = w.mem
            /\ outcome' = "other"
            /\ loc' = [loc EXCEPT !["sim"].nwrites = @ + 1,
                                  !["sim"].since = 0]
            /\ UNCHANGED <<conn, task, preset, one_shot, request, response,
                           closed_by, naccepted, call, ncalls, lock, pc,
                           committed, net>>

NextSim == Tick \/ OtherWrite

SpecSim == InitSim /\ [][NextSim]_vars

-----------------------------------------------------------------------------
(* The claims about the producers *)

\* the producer's configuration, after init_simulation
SimConf == loc["sim"].conf

SimWlen == get_section_word_len(SimConf.section)

\* the last step was a pass of the producer's loop
Ticked == outcome \in {"written", "skipped", "failed"}

\* the producer's window of mem
TargetWindow(mem) ==
    Slice(mem[SimConf.section], SimConf.addr * SimWlen,
          (SimConf.addr + SimConf.nwords) * SimWlen)

\* the producer's window lies inside its section
TargetInBounds ==
    check_bounds(prev, SimConf.section, SimConf.addr, SimConf.nwords)

\* mem and prev differ at most in the producer's window
OnlyTargetWindowChanged(mem) ==
    /\ Len(mem[SimConf.section]) = Len(prev[SimConf.section])
    /\ \A i \in 1..Len(prev[SimConf.section]) :
          (i <= SimConf.addr * SimWlen
           \/ i > (SimConf.addr + SimConf.nwords) * SimWlen) =>
              mem[SimConf.section][i] = prev[SimConf.section][i]
    /\ \A section \in Sections \ {SimConf.section} :
          mem[section] = prev[section]

\* the value the k-th write of the producer put into the first word of its
\* window
Emitted(k) == from_bytes(SubSeq(loc["sim"].emitted[k], 1, SimWlen))

\* the value the claim gives the k-th tick of a counter with range
\* <<a, b, s>>
RECURSIVE CounterAt(_, _)
CounterAt(range, k) ==
    IF k <= 1 THEN range[1]
    ELSE LET next == CounterAt(range, k - 1) + range[3]
         IN  IF (range[3] > 0 /\ next >= range[2])
                \/ (range[3] < 0 /\ next <= range[2])
                \/ (range[3] = 0 /\ next >= range[2])
             THEN range[1] ELSE next

\* a counter whose window is in bounds and whose values all fit its word
SoundCounter ==
    /\ SimConf.type = "counter"
    /\ TargetInBounds
    /\ \A k \in 1..(MaxTicks + 1) :
          ~value_to_bytes_raises(CounterAt(SimConf.range, k), SimWlen)

\* the ticks of a counter emit a, a + s, a + 2s, ..., back to a where the
\* next value would reach or cross b, each value into every word of the
\* window; a sound counter writes on every tick; the counter over [0, 4, 1]
\* has written all of 0, 1, 2, 3 after four ticks
CounterSequence ==
    SimConf.type = "counter" =>
        /\ \A k \in 1..Len(loc["sim"].emitted) :
              loc["sim"].emitted[k] =
                  value_to_bytes(CounterAt(SimConf.range, k), SimConf.nwords,
                                 SimWlen)
        /\ outcome = "written" =>
              TargetWindow(memspace) =
                  loc["sim"].emitted[Len(loc["sim"].emitted)]
        /\ SoundCounter =>
              /\ pc["sim"] \in {"simulate", "write"}
              /\ Len(loc["sim"].emitted) = loc["sim"].nticks
        /\ (SimConf.range = <<0, 4, 1>> /\ loc["sim"].nticks >= 4) =>
              {Emitted(k) : k \in 1..Len(loc["sim"].emitted)} = 0..3

\* the stop value b is among the values emitted
StopEmitted ==
    \E k \in 1..Len(loc["sim"].emitted) : Emitted(k) = SimConf.range[2]

\* C26 as stated: a counter with range [a, b, s] emits a, a + s, ...,
\* returning to a where the next value would reach or cross b, and b is
\* never emitted; over [0, 4, 1] it emits 0, 1, 2, 3, 0, ... and all four
\* values are written to the target word.
C26_CounterNeverEmitsStop ==
    /\ CounterSequence
    /\ SimConf.type = "counter" => ~StopEmitted

\* C26: a counter with range [a, b, s] emits a, a + s, ..., returning to a
\* where the next value would reach or cross b; b is emitted only when
\* a = b, and then on every tick; over [0, 4, 1] it emits 0, 1, 2, 3, 0, ...
\* and all four values are written to the target word.
C26_CounterEmitsStopOnlyAsStart ==
    /\ CounterSequence
    /\ SimConf.type = "counter" =>
          /\ SimConf.range[1] # SimConf.range[2] => ~StopEmitted
          /\ (SimConf.range[1] = SimConf.range[2]
              /\ Len(loc["sim"].emitted) > 0) => StopEmitted

\* C26, witness: the counter over [0, 4, 1] has wrapped and written 1 again
C26_Witness ==
    /\ SimConf.type = "counter"
    /\ SimConf.range = <<0, 4, 1>>
    /\ SimConf.section = "words16"
    /\ loc["sim"].nticks = 6
    /\ outcome = "written"
    /\ TargetWindow(memspace) = <<0, 1>>
    /\ loc["sim"].counter = 2

\* a static producer whose window is in bounds and whose value fits its word
SoundStatic ==
    /\ SimConf.type = "static"
    /\ TargetInBounds
    /\ ~value_to_bytes_raises(SimConf.value, SimWlen)

\* C27: a static producer with value V on a word section writes V, as wlen
\* big-endian bytes, into every one of the nwords words of its window on
\* every tick; no byte outside the window is modified, and with no other
\* writer between two ticks the second leaves the memory as the first left
\* it.
C27_StaticWritesValue ==
    (SoundStatic /\ Ticked) =>
        /\ outcome = "written"
        /\ \A j \in 0..(SimConf.nwords - 1) :
              Slice(TargetWindow(memspace), j * SimWlen, (j + 1) * SimWlen)
                  = to_bytes(SimConf.value, SimWlen)
        /\ OnlyTargetWindowChanged(memspace)
        /\ loc["sim"].since >= 2 => memspace = prev

\* C27, witness: the producer of 4386 has filled words16 again after the
\* other writer had overwritten a word of it
C27_Witness ==
    /\ SoundStatic
    /\ SimConf.value = 4386
    /\ outcome = "written"
    /\ loc["sim"].nwrites > 0
    /\ loc["sim"].since = 1
    /\ prev["words16"][4] = 5
    /\ memspace["words16"][3] = 17
    /\ memspace["words16"][4] = 34

\* the source word the last pass of a transform producer read as state
SourceState == loc["sim"].state

\* the state matches the rule's in
RuleMatches(state) ==
    IF SimConf.transform.is_list
    THEN SimConf.transform.in[1] <= state /\ state <= SimConf.transform.in[2]
    ELSE state = SimConf.transform.in[1]

\* what the rule gives for a state that matches
RuleOut(state) ==
    IF SimConf.transform.out_null THEN state ELSE SimConf.transform.out

\* C28: on each tick a transform producer reads its source word as state; if
\* state matches the rule's in (equal to a scalar, or lo <= state <= hi) it
\* writes out, or state when out is null, into the words of its window; if
\* not, it writes nothing and the memory is as it was.  The state is the
\* source word as simulate_data read it; set_memspace is called only for a
\* state that matches.
C28_TransformRule ==
    /\ (SimConf.type = "transform" /\ outcome \in {"simulated", "skipped"}) =>
          SourceState = source_word(memspace, SimConf)
    /\ (SimConf.type = "transform" /\ outcome = "simulated") =>
          RuleMatches(SourceState)
    /\ (SimConf.type = "transform" /\ Ticked /\ TargetInBounds) =>
        /\ ~RuleMatches(SourceState) =>
              /\ outcome = "skipped"
              /\ memspace = prev
        /\ (RuleMatches(SourceState)
            /\ ~value_to_bytes_raises(RuleOut(SourceState), SimWlen)) =>
              /\ outcome = "written"
              /\ TargetWindow(memspace) =
                    value_to_bytes(RuleOut(SourceState), SimConf.nwords,
                                   SimWlen)
              /\ OnlyTargetWindowChanged(memspace)

\* C28, witness: the rule 5 -> 9 has written 9, the source then left 5 and
\* the tick after that wrote nothing
C28_Witness ==
    /\ SimConf.type = "transform"
    /\ SimConf.transform = Rule(<<5>>, FALSE, 9)
    /\ outcome = "skipped"
    /\ Len(loc["sim"].emitted) > 0
    /\ SourceState = 7
    /\ TargetWindow(memspace) = <<0, 9>>

-----------------------------------------------------------------------------
(* Concurrent connections.  The listener accepts connections and starts a
   thread on create_new_backend for each; the clients send requests when
   they please.  A handler's thread has not run yet, or stands at the select
   of handle_request, at get_request, at the handler that serves the
   request, at the handler's conn.sendall, or at the end of service_client. *)

\* BaseFieldbusModule.conn before a socket is given to the module: None
NoConn == 0

\* the module object of the modules table
TemplateModule == [id |-> "modbus", memory_manager |-> "mm", conn |-> NoConn]

\* an object that has not been made
NoModule == [id |-> "none", memory_manager |-> "none", conn |-> NoConn]

\* connections, and the threads that serve them, by number
Conns == 1..MaxConns

\* create_new_backend that serves the connection with the module of the
\* modules table itself
create_new_backend_without_copy(mods, current_conn) ==
    [plc |-> 0, modules |-> [mods EXCEPT ![0].conn = current_conn]]

\* create_new_backend: plc = copy.copy(module); plc.conn = current_conn.  The
\* copy is the object current_conn; [plc, modules]
create_new_backend(mods, current_conn) ==
    [plc |-> current_conn,
     modules |-> [mods EXCEPT ![current_conn] =
                     [mods[0] EXCEPT !.conn = current_conn]]]

\* request number i of the client of connection s: its transaction id is
\* <<s, i>>
NetRequest(s, i, fc, addr, value) ==
    <<s, i, 0, 0>> \o ProperLen(12) \o <<17, fc>> \o Word(addr) \o value

\* the requests the client of connection s may send as its i-th: read
\* register 0, and as its first also preset register 0 with <<s, i>>
NetRequests(s, i) ==
    {NetRequest(s, i, 3, 0, Word(1))}
    \cup {NetRequest(s, i, 6, 0, <<s, i>>) : k \in {1} \cap {i}}

\* a message received from or sent on a socket by the thread of handler h
LogEntry(op, h, msg) == [op |-> op, by |-> h, msg |-> msg]

\* the locals of a handler's thread: the module object it serves with, the
\* request it has received, and the response its handler has built and the
\* way the handler went, up to conn.sendall
HandlerLocals(plc) ==
    [plc |-> plc, request |-> <<>>, response |-> <<>>, outcome |-> "none"]

\* the locals of a thread that has not run yet
NoHandler == HandlerLocals(0)

InitNet ==
    /\ memspace = MemoryManagerInit(Blen, W16len, W32len, W64len)
    /\ prev = memspace
    /\ conn = "none"
    /\ task = "none"
    /\ preset = NoPreset
    /\ one_shot \in BOOLEAN
    /\ request = <<>>
    /\ response = <<>>
    /\ outcome = "idle"
    /\ closed_by = "none"
    /\ naccepted = 0
    /\ call = NoCall
    /\ ncalls = 0
    /\ lock = "none"
    /\ pc = [h \in Conns |-> "none"]
    /\ loc = [h \in Conns |-> NoHandler]
    /\ committed = <<>>
    /\ sockets = [c \in Conns |->
                     [state |-> "none", inbox |-> <<>>, nsent |-> 0,
                      log |-> <<>>, peer |-> "open", rst |-> FALSE]]
    /\ modules = [k \in 0..MaxConns |->
                     IF k = 0 THEN TemplateModule ELSE NoModule]

\* the socket the module object of handler h holds
ConnOf(h) == modules[loc[h].plc].conn

\* Listener.service_client_requests accepts a connection and starts a thread
\* on create_new_backend; the thread has not run yet
NetAccept ==
    LET c == naccepted + 1
    IN  /\ naccepted < MaxConns
        /\ naccepted' = c
        /\ sockets' = [sockets EXCEPT ![c].state = "open"]
        /\ UNCHANGED <<memspace, prev, conn, task, preset, one_shot, request,
                       response, outcome, closed_by, call, ncalls, lock, pc,
                       loc, committed, modules>>

\* the thread of connection h runs create_new_backend up to the select of
\* handle_request: it copies the module and gives the copy the socket
CreateBackend(h) ==
    LET b == create_new_backend(modules, h)
    IN  /\ h <= naccepted
        /\ pc[h] = "none"
        /\ modules' = b.modules
        /\ loc' = [loc EXCEPT ![h] = HandlerLocals(b.plc)]
        /\ pc' = [pc EXCEPT ![h] = "select"]
        /\ UNCHANGED <<memspace, prev, conn, task, preset, one_shot, request,
                       response, outcome, closed_by, naccepted, call, ncalls,
                       lock, committed, sockets>>

\* the client of connection c sends a request
ClientSend(c) ==
    \E req \in NetRequests(c, sockets[c].nsent + 1) :
        /\ sockets[c].state = "open"
        /\ sockets[c].nsent < MaxSends
        /\ sockets' = [sockets EXCEPT ![c].inbox = @ \o req,
                                      ![c].nsent = @ + 1]
        /\ UNCHANGED <<memspace, prev, conn, task, preset, one_shot, request,
                       response, outcome, closed_by, naccepted, call, ncalls,
                       lock, pc, loc, committed, modules>>

\* handle_request: select reports the handler's socket readable
Select(h) ==
    /\ pc[h] = "select"
    /\ Len(sockets[ConnOf(h)].inbox) > 0
    /\ pc' = [pc EXCEPT ![h] = "recv"]
    /\ UNCHANGED <<memspace, prev, conn, task, preset, one_shot, request,
                   response, outcome, closed_by, naccepted, call, ncalls,
                   lock, loc, committed, net>>

\* handle_request: nothing arrives for the timeout of select and
\* handle_request returns 0; service_client with one_shot leaves for the
\* shutdown and close, the loop of service_client calls handle_request again
NetSelectTimeout(h) ==
    /\ pc[h] = "select"
    /\ sockets[ConnOf(h)].inbox = <<>>
    /\ pc' = [pc EXCEPT ![h] =
                 IF LoopExit(one_shot, handle_request_timeout(memspace))
                        = "none"
                 THEN "select" ELSE "close"]
    /\ UNCHANGED <<memspace, prev, conn, task, preset, one_shot, request,
                   response, outcome, closed_by, naccepted, call, ncalls,
                   lock, loc, committed, net>>

\* process_request: get_request takes the request from the handler's socket
Recv(h) ==
    LET c == ConnOf(h)
        g == get_request(sockets[c].inbox)
    IN  /\ pc[h] = "recv"
        /\ sockets' = [sockets EXCEPT
                           ![c].inbox = g.wire,
                           ![c].log = Append(@, LogEntry("recv", h, g.buf))]
        /\ loc' = [loc EXCEPT ![h].request = g.buf]
        /\ pc' = [pc EXCEPT ![h] = IF g.err # "none" THEN "close"
                                   ELSE "service"]
        /\ UNCHANGED <<memspace, prev, conn, task, preset, one_shot, request,
                       response, outcome, closed_by, naccepted, call, ncalls,
                       lock, committed, modules>>

\* where service_client goes after a pass in which process_request went as
\* outcome tells: round its loop, or to the shutdown and close
AfterPass(oc) ==
    IF LoopExit(one_shot, [outcome |-> oc, retval |-> process_request_retval])
           = "none"
    THEN "select" ELSE "close"

\* a process_request that leaves its response unsent and goes on to receive
\* the request that waits behind the one it has served
Service_reading_ahead(h) ==
    LET d == Dispatch(memspace, loc[h].request)
    IN  /\ pc[h] = "service"
        /\ prev' = memspace
        /\ memspace' = d.mem
        /\ loc' = [loc EXCEPT ![h].response = d.response,
                              ![h].outcome = d.outcome]
        /\ pc' = [pc EXCEPT ![h] = IF d.outcome = "raised"
                                   THEN AfterPass(d.outcome)
                                   ELSE IF sockets[ConnOf(h)].inbox # <<>>
                                   THEN "recv" ELSE "send"]
        /\ UNCHANGED <<conn, task, preset, one_shot, request, response,
                       outcome, closed_by, naccepted, call, ncalls, lock,
                       committed, net>>

\* process_request: the handler of the request's function reads or writes
\* the memory, under the lock of the MemoryManager, and builds its response;
\* an exception it does not catch ends service_client
Service(h) ==
    LET d == Dispatch(memspace, loc[h].request)
    IN  /\ pc[h] = "service"
        /\ prev' = memspace
        /\ memspace' = d.mem
        /\ loc' = [loc EXCEPT ![h].response = d.response,
                              ![h].outcome = d.outcome]
        /\ pc' = [pc EXCEPT ![h] = IF d.outcome = "raised"
                                   THEN AfterPass(d.outcome) ELSE "send"]
        /\ UNCHANGED <<conn, task, preset, one_shot, request, response,
                       outcome, closed_by, naccepted, call, ncalls, lock,
                       committed, net>>

\* the handler's conn.sendall(response.buf) on the handler's socket;
\* service_client then goes round its loop or leaves it.  On a connection
\* the peer has reset sendall raises ConnectionResetError and nothing is
\* sent; a response sent to a peer that has closed is answered with a reset
Send(h) ==
    LET c == ConnOf(h)
        so == sockets[c]
    IN  /\ pc[h] = "send"
        /\ sockets' = IF so.peer = "reset" THEN sockets
                      ELSE [sockets EXCEPT
                               ![c].log = Append(@, LogEntry("send", h,
                                                             loc[h].response)),
                               ![c].rst = @ \/ so.peer = "closed"]
        /\ pc' = [pc EXCEPT ![h] = AfterPass(IF so.peer = "reset"
                                             THEN "reset"
                                             ELSE loc[h].outcome)]
        /\ UNCHANGED <<memspace, prev, conn, task, preset, one_shot, request,
                       response, outcome, closed_by, naccepted, call, ncalls,
                       lock, loc, committed, modules>>

\* the end of service_client: the handler's socket is shut down and closed;
\* on a socket that a reset has reached shutdown raises OSError, close is
\* not reached and the socket stays open
Close(h) ==
    /\ pc[h] = "close"
    /\ sockets' = [sockets EXCEPT ![ConnOf(h)].state =
                       CloseBackend(sockets[ConnOf(h)].rst)]
    /\ pc' = [pc EXCEPT ![h] = "done"]
    /\ UNCHANGED <<memspace, prev, conn, task, preset, one_shot, request,
                   response, outcome, closed_by, naccepted, call, ncalls,
                   lock, loc, committed, modules>>

NextNet ==
    \/ NetAccept
    \/ \E h \in Conns : CreateBackend(h)
    \/ \E c \in Conns : ClientSend(c)
    \/ \E h \in Conns : Select(h)
    \/ \E h \in Conns : NetSelectTimeout(h)
    \/ \E h \in Conns : Recv(h)
    \/ \E h \in Conns : Service(h)
    \/ \E h \in Conns : Send(h)
    \/ \E h \in Conns : Close(h)

SpecNet == InitNet /\ [][NextNet]_vars

-----------------------------------------------------------------------------
(* The claims about concurrent connections *)

\* the transaction id of a message
Tid(msg) == SubSeq(msg, 1, 2)

\* the messages handlers have received from, and sent on, socket c
Received(c) ==
    SelectSeq(sockets[c].log, LAMBDA e : e.op = "recv")
SentOn(c) ==
    SelectSeq(sockets[c].log, LAMBDA e : e.op = "send")

\* C29: each accepted connection is served by a handler instance of its own
\* that holds exactly that connection's socket; with connections open at the
\* same time a handler receives from and sends on its own socket only, no
\* response goes to another connection's socket, the module of the modules
\* table keeps conn unset, and all handlers share the one memory manager.
C29_HandlerOwnsItsSocket ==
    /\ modules[0].conn = NoConn
    /\ \A h \in Conns : pc[h] # "none" =>
          /\ loc[h].plc # 0
          /\ \A g \in Conns \ {h} : pc[g] # "none" => loc[g].plc # loc[h].plc
          /\ ConnOf(h) = h
          /\ modules[loc[h].plc].memory_manager = modules[0].memory_manager
    /\ \A c \in Conns : \A k \in 1..Len(sockets[c].log) :
          /\ sockets[c].log[k].by = c
          /\ sockets[c].log[k].msg[1] = c

\* C29, witness: two connections were open at once; the handler of the
\* first answered a preset of register 0 on the first socket, and the
\* handler of the second then answered a read of register 0 on the second
\* socket with the value preset through the first
C29_Witness ==
    /\ MaxConns >= 2
    /\ sockets[1].state = "open"
    /\ sockets[2].state = "open"
    /\ Len(SentOn(1)) = 1
    /\ SentOn(1)[1].msg = NetRequest(1, 1, 6, 0, <<1, 1>>)
    /\ Len(SentOn(2)) = 1
    /\ SentOn(2)[1].by = 2
    /\ SentOn(2)[1].msg = <<2, 1, 0, 0, 0, 5, 17, 3, 2, 1, 1>>

\* C30: on one connection the responses are sent in the order in which the
\* requests were received, and the handler does not start receiving request
\* i + 1 until the response to request i has been completely sent on that
\* socket: receptions and sendings alternate on the socket, the k-th
\* response answers the k-th request received, and a handler that waits
\* for or receives a request has sent a response to every request it
\* received before.
C30_AnsweredInReceiveOrder ==
    \A c \in Conns :
        /\ \A k \in 1..Len(sockets[c].log) :
              sockets[c].log[k].op = IF k % 2 = 1 THEN "recv" ELSE "send"
        /\ \A k \in 1..Len(SentOn(c)) :
              Tid(SentOn(c)[k].msg) = Tid(Received(c)[k].msg)
        /\ pc[c] \in {"select", "recv"} =>
              Len(SentOn(c)) = Len(Received(c))

\* C30, witness: the client of the first connection has sent two requests
\* one behind the other; the handler has received the first, has sent its
\* response, and has left the second on the socket
C30_Witness ==
    /\ sockets[1].nsent = 2
    /\ Len(Received(1)) = 1
    /\ Len(SentOn(1)) = 1
    /\ Tid(Received(1)[1].msg) = <<1, 1>>
    /\ Tid(SentOn(1)[1].msg) = <<1, 1>>
    /\ Tid(sockets[1].inbox) = <<1, 2>>
    /\ pc[1] \in {"close", "done"}

-----------------------------------------------------------------------------
(* The claims about the masks and the empty window *)

\* the last call was get_bits or set_bits with addr >= 0 and nbits >= 1
BitCallOfSomeBits ==
    /\ call.op \in {"get_bits", "set_bits"}
    /\ call.addr >= 0
    /\ call.n >= 1

\* the first and last byte, counted from the right end, that the window of
\* call c covers
FirstByte(c) == c.addr \div BITS_PER_BYTE
LastByte(c) == (c.addr + c.n - 1) \div BITS_PER_BYTE

\* bit p, counted from the right end of masks
MaskBit(masks, p) ==
    BitOf(masks[Len(masks) - (p \div BITS_PER_BYTE)], p % BITS_PER_BYTE)

\* C36: for every addr >= 0 and nbits >= 1 calc_masks returns one mask byte
\* per byte the window covers, as many as the slice calc_mem_slice_byte_bounds
\* chooses, aligned with the right-to-left slice, with 1-bits at exactly the
\* positions addr .. addr + nbits - 1, and calc_byte_mask never raises.
C36_MasksCoverTheWindow ==
    BitCallOfSomeBits =>
        LET masks == calc_masks(call.addr, call.n)
            b == calc_mem_slice_byte_bounds(prev, call.addr, call.n)
        IN  /\ ~calc_masks_raises(call.addr, call.n)
            /\ Len(masks) = LastByte(call) - FirstByte(call) + 1
            /\ \A p \in 0..(BITS_PER_BYTE * Len(masks) - 1) :
                  (MaskBit(masks, p) = 1) <=>
                      (/\ call.addr <= p + BITS_PER_BYTE * FirstByte(call)
                       /\ p + BITS_PER_BYTE * FirstByte(call)
                             < call.addr + call.n)
            /\ b.err = "none" =>
                  Len(BoundsSlice(prev["bits"], b)) = Len(masks)

\* C34: set_bits(addr, 0, data) with 0 <= addr <= 8 * len(bits), as force
\* multiple coils with nbits = 0 calls it, completes without error and leaves
\* the content and the length of the bits section unchanged, whatever the
\* data and the content.
C34_EmptyBitWriteIsNoOp ==
    (/\ call.op = "set_bits"
     /\ call.n = 0
     /\ 0 <= call.addr
     /\ call.addr <= NCoils(prev["bits"]))
    => /\ call.err = "none"
       /\ memspace = prev

\* C32: every request received completely, of 12 bytes or of 13 + byte_count
\* bytes for 0x0f and 0x10, is answered with exactly one response, success or
\* exception, before the connection is closed or the next request is read,
\* whatever the function code, addr, count, byte count and memory content.
C32_EveryRequestAnswered ==
    (/\ Dispatched
     /\ Len(request) = IF ReqFc \in {15, 16} THEN 13 + request[13] ELSE 12)
    => /\ Answered
       /\ response # <<>>

-----------------------------------------------------------------------------
(* The claims about the range of a counter *)

\* the configurations of SimConfs that init_simulation turns into the
\* configuration of the running simulation
ConfiguredAs == {c \in SimConfs : init_simulation_conf(c) = SimConf}

\* the range [start, stop, step] that completes the configured range r for a
\* section of word length wlen
CompletedRange(r, wlen) ==
    CASE Len(r) = 0 -> <<0, Pow2(BITS_PER_BYTE * wlen), 1>>
      [] Len(r) = 1 -> <<0, r[1], 1>>
      [] Len(r) = 2 -> <<r[1], r[2], IF r[2] < r[1] THEN -1 ELSE 1>>
      [] OTHER -> r

\* C37: define_range completes the configured range of a counter or a
\* randrange to [start, stop, step]: no parameters gives [0, 2^(8*wlen), 1], [stop] gives
\* [0, stop, 1], [start, stop] gets the step -1 if stop < start and 1
\* otherwise, three parameters are kept, and define_range applied to its own
\* result changes nothing.
C37_DefineRangeCompletes ==
    SimConf.type \in range_types =>
        /\ \A c \in ConfiguredAs :
              SimConf.range = CompletedRange(c.range, SimWlen)
        /\ Len(SimConf.range) = 3
        /\ define_range(SimConf.range, SimConf.section) = SimConf.range

\* a counter configured with [2, 0] runs with the range [2, 0, -1] and has
\* made a pass of its loop
C37_Witness ==
    /\ SimConf.type = "counter"
    /\ SimConf.range = <<2, 0, -1>>
    /\ \E c \in ConfiguredAs : c.range = <<2, 0>>
    /\ loc["sim"].nticks > 0

-----------------------------------------------------------------------------
(* A counter with no configured range, run for as long as it takes to count
   through its range and start again *)

\* io_manager.simulations, one of them per run: counters without a range on
\* words16, over one word and over the section, and on bits
CountConfs ==
    {Simulation("counter", <<>>, 0, Memspace("words16", 0, n), NoSource,
                NoRule) : n \in {1, W16len}}
    \cup {Simulation("counter", <<>>, 0, Memspace("bits", a, n), NoSource,
                     NoRule) : a \in {0, 3}, n \in {1, 2}}

\* the locals of the thread of run_simulation: conf, sources['counter'] and
\* the data of the last pass
CountLocals(conf) ==
    [conf |-> init_simulation_conf(conf),
     counter |-> init_simulation(init_simulation_conf(conf)),
     emitted |-> <<>>]

InitCount ==
    /\ memspace = MemoryManagerInit(Blen, W16len, W32len, W64len)
    /\ prev = memspace
    /\ conn = "none"
    /\ task = "none"
    /\ preset = NoPreset
    /\ one_shot = FALSE
    /\ request = <<>>
    /\ response = <<>>
    /\ outcome = "idle"
    /\ closed_by = "none"
    /\ naccepted = 0
    /\ call = NoCall
    /\ ncalls = 0
    /\ lock = "none"
    /\ pc = [t \in {"sim"} |-> "simulate"]
    /\ \E conf \in CountConfs : loc = [t \in {"sim"} |-> CountLocals(conf)]
    /\ committed = <<>>
    /\ NoNet

\* one pass of the loop of run_simulation: simulate_data, then set_memspace;
\* an exception ends the thread.  The counter reads no memory and no other
\* thread runs here
Count ==
    LET l == loc["sim"]
        r == simulate_data(memspace, l.conf, l.counter)
        w == set_memspace(memspace,
                          Memspace(l.conf.section, l.conf.addr, l.conf.nwords),
                          r.data)
    IN  /\ pc["sim"] = "simulate"
        /\ prev' = memspace
        /\ IF r.err # "none" \/ w.err # "none"
           THEN /\ pc' = thread_exit(pc, "sim")
                /\ outcome' = "failed"
                /\ loc' = [loc EXCEPT !["sim"].counter = r.counter]
                /\ memspace' = memspace
           ELSE /\ pc' = pc
                /\ outcome' = "written"
                /\ loc' = [loc EXCEPT !["sim"].counter = r.counter,
                                      !["sim"].emitted = r.data]
                /\ memspace' = w.mem
        /\ UNCHANGED <<conn, task, preset, one_shot, request, response,
                       closed_by, naccepted, call, ncalls, lock, committed,
                       net>>

NextCount == Count

SpecCount == InitCount /\ [][NextCount]_vars

\* the first value that does not fit a word of the running simulation's section
WordBound == Pow2(BITS_PER_BYTE * SimWlen)

\* the value of the last pass, sources['counter'] being the one after it
LastValue == (loc["sim"].counter - 1) % WordBound

\* C40: a counter with no configured range on a section of word length wlen
\* emits only values v with 0 <= v < 2^(8*wlen): it counts from 0 to
\* 2^(8*wlen) - 1 and starts again at 0; value_to_bytes never overflows and
\* the producer does not stop.
C40_DefaultCounterWraps ==
    /\ pc["sim"] = "simulate"
    /\ outcome \in {"idle", "written"}
    /\ loc["sim"].counter \in 0..(WordBound - 1)
    /\ outcome = "idle" => loc["sim"].counter = 0
    /\ outcome = "written" =>
          /\ ~value_to_bytes_raises(LastValue, SimWlen)
          /\ loc["sim"].emitted
                = value_to_bytes(LastValue, SimConf.nwords, SimWlen)

\* the counter on words16 has written 65535 over 65534 and is back at 0
C40_Witness ==
    /\ SimConf.section = "words16"
    /\ outcome = "written"
    /\ loc["sim"].counter = 0
    /\ loc["sim"].emitted
          = value_to_bytes(WordBound - 1, SimConf.nwords, SimWlen)
    /\ Slice(prev["words16"], 0, SimWlen) = to_bytes(WordBound - 2, SimWlen)
    /\ Slice(memspace["words16"], 0, SimWlen)
          = to_bytes(WordBound - 1, SimWlen)

-----------------------------------------------------------------------------
(* Reads, through requests and through direct calls, of a memory that single
   writes have filled *)

\* the read requests of Requests
ReadRequests == {wire \in Requests : wire[8] \in {1, 3}}

\* the force single coil and preset single register requests of Requests
SingleWriteRequests == {wire \in ProperRequests : wire[8] \in {5, 6}}

\* the requests and calls made so far are fewer than MaxCalls
MayOperate == naccepted + ncalls < MaxCalls

AcceptReader ==
    /\ MayOperate
    /\ Accept

\* what the handler's thread holds when it is not in a handler
NoPass == [handle_request_timeout(<<>>) EXCEPT !.outcome = "none"]

InitRead ==
    /\ memspace = MemoryManagerInit(Blen, W16len, W32len, W64len)
    /\ prev = memspace
    /\ conn = "none"
    /\ task = "none"
    /\ preset = NoPreset
    /\ one_shot = FALSE
    /\ request = <<>>
    /\ response = <<>>
    /\ outcome = "idle"
    /\ closed_by = "none"
    /\ naccepted = 0
    /\ call = NoCall
    /\ ncalls = 0
    /\ lock = "none"
    /\ pc = <<>>
    /\ loc = [t \in {"handler"} |-> NoPass]
    /\ committed = <<>>
    /\ NoNet

\* handle_request up to the handler's conn.sendall: the request wire is
\* received and its handler has read or written the memory, with the lock
\* taken and released, and built its response
HandleRead(wire) ==
    LET r == handle_request(memspace, wire)
    IN  /\ task = "serving"
        /\ task' = "sending"
        /\ prev' = memspace
        /\ memspace' = r.mem
        /\ request' = r.request
        /\ loc' = [loc EXCEPT !["handler"] = [r EXCEPT !.mem = <<>>]]
        /\ UNCHANGED <<conn, preset, one_shot, response, outcome, closed_by,
                       naccepted, call, ncalls, lock, pc, committed, net>>

\* a client sends a read request or a single write and waits for the response
ServiceReadRequest ==
    \E wire \in ReadRequests \cup SingleWriteRequests : HandleRead(wire)

\* the handler's conn.sendall(response.buf), unless the handler raised, and
\* the rest of the pass of service_client, as Serve has it
SendReadResponse ==
    LET r == [loc["handler"] EXCEPT !.mem = memspace]
        exit == LoopExit(one_shot, r)
    IN  /\ task = "sending"
        /\ prev' = memspace
        /\ preset' = PresetAfter(r, "open")
        /\ response' = r.response
        /\ outcome' = r.outcome
        /\ closed_by' = exit
        /\ task' = IF exit = "none" THEN "serving" ELSE "done"
        /\ conn' = IF exit = "none" THEN "open" ELSE CloseBackend(FALSE)
        /\ loc' = [loc EXCEPT !["handler"] = NoPass]
        /\ UNCHANGED <<memspace, request, one_shot, naccepted, call, ncalls,
                       lock, pc, committed, net>>

ReadData ==
    /\ MayOperate
    /\ CallGetData

ReadBits ==
    /\ MayOperate
    /\ CallGetBits

NextRead ==
    \/ AcceptReader
    \/ ServiceReadRequest
    \/ SendReadResponse
    \/ ReadData
    \/ ReadBits

SpecRead == InitRead /\ [][NextRead]_vars

\* a read request is handled, and its response sent
ReadRequestServed ==
    \/ \E wire \in ReadRequests : HandleRead(wire)
    \/ /\ loc["handler"].request # <<>>
       /\ loc["handler"].request[8] \in {1, 3}
       /\ SendReadResponse

\* the last request handled was a read request
ReadRequestHandled ==
    /\ outcome \in {"success", "exception", "raised"}
    /\ Len(request) >= 12
    /\ request[8] \in {1, 3}

\* C39: handling a read coil status or read holding registers request, with a
\* success or an exception response, and any call of get_data or get_bits,
\* leaves the content and the length of all four sections unchanged.
C39_ReadsLeaveMemoryAlone ==
    [][(ReadRequestServed \/ ReadData \/ ReadBits) => memspace' = memspace]_vars

\* a read holding registers request has been answered with the registers a
\* preset single register had filled before
C39_Witness ==
    /\ ReadRequestHandled
    /\ request[8] = 3
    /\ outcome = "success"
    /\ \E k \in 1..Len(memspace["words16"]) : memspace["words16"][k] # 0
    /\ Slice(response, 9, Len(response)) # bytearray(Len(response) - 9)

-----------------------------------------------------------------------------
(* recv_fragment with any number of tries, one pass of its loop at a time, on
   a socket that hands over the peer's bytes in fragments of any size, times
   out, or reports the end of the stream *)

MaxTries == 3
MaxRecvCalls == 2

\* FieldbusMessage(blen) of the messages
RecvBlens == {0, 2}

\* the nbytes of the calls
RecvTotals == {0, 2, 4, 5}

\* the k-th byte the peer sends
StreamByte(k) == 100 + k

\* the bytes first + 1 .. first + n of the stream
StreamBytes(first, n) == [j \in 1..n |-> StreamByte(first + j)]

\* nbytes_left taken to be the total asked for
nbytes_left_total(buf, nbytes) == nbytes

\* nbytes_left = nbytes - len(self.buf)
nbytes_left(buf, nbytes) == nbytes - Len(buf)

\* the thread's message and the call of recv_fragment it is in: self.buf, the
\* buffer at the call, nbytes, ntries, the passes of the loop begun, the
\* calls of conn.recv made and those of them that timed out, the size of the
\* last fragment (None before the first), the bytes taken off the stream
\* before the call and up to now, whether the peer has closed, the calls
\* made, self.blen
RecvLocals(blen) ==
    [blen |-> blen,
     buf |-> FieldbusMessage(blen), buf0 |-> FieldbusMessage(blen),
     nbytes |-> 0, ntries |-> 0, i |-> 0, nreads |-> 0, ntimeouts |-> 0,
     fragment |-> None, taken0 |-> 0, taken |-> 0, eof |-> FALSE,
     nrecvcalls |-> 0]

InitRecv ==
    /\ memspace = MemoryManagerInit(Blen, W16len, W32len, W64len)
    /\ prev = memspace
    /\ conn = "open"
    /\ task = "none"
    /\ preset = NoPreset
    /\ one_shot = FALSE
    /\ request = <<>>
    /\ response = <<>>
    /\ outcome = "idle"
    /\ closed_by = "none"
    /\ naccepted = 0
    /\ call = NoCall
    /\ ncalls = 0
    /\ lock = "none"
    /\ pc = [t \in {"rx"} |-> "idle"]
    /\ \E blen \in RecvBlens : loc = [t \in {"rx"} |-> RecvLocals(blen)]
    /\ committed = <<>>
    /\ NoNet

RecvUnchanged ==
    UNCHANGED <<memspace, prev, conn, task, preset, one_shot, request,
                response, outcome, closed_by, naccepted, call, ncalls, lock,
                committed, net>>

\* recv_fragment(conn, nbytes, ntries=ntries) is called on the message
RecvCall ==
    \E nbytes \in RecvTotals, ntries \in 0..MaxTries :
        LET l == loc["rx"]
        IN  /\ pc["rx"] \in {"idle", "returned"}
            /\ l.nrecvcalls < MaxRecvCalls
            /\ pc' = [pc EXCEPT !["rx"] = "loop"]
            /\ loc' = [loc EXCEPT !["rx"] =
                          [l EXCEPT !.buf0 = l.buf, !.nbytes = nbytes,
                                    !.ntries = ntries, !.i = 0, !.nreads = 0,
                                    !.ntimeouts = 0, !.fragment = None,
                                    !.taken0 = l.taken,
                                    !.nrecvcalls = @ + 1]]
            /\ RecvUnchanged

\* reset_buffer() is called on the message between two calls of
\* recv_fragment: the buffer is what it was when the message was made
RecvReset ==
    LET l == loc["rx"]
    IN  /\ pc["rx"] \in {"idle", "returned"}
        /\ pc' = [pc EXCEPT !["rx"] = "idle"]
        /\ loc' = [loc EXCEPT !["rx"] =
                      [l EXCEPT !.buf = reset_buffer(l.blen),
                                !.buf0 = reset_buffer(l.blen),
                                !.nbytes = 0, !.ntries = 0, !.i = 0,
                                !.nreads = 0, !.ntimeouts = 0,
                                !.fragment = None, !.taken0 = l.taken]]
        /\ RecvUnchanged

\* range(ntries) is used up: the loop ends
RecvExhausted ==
    /\ pc["rx"] = "loop"
    /\ loc["rx"].i >= loc["rx"].ntries
    /\ pc' = [pc EXCEPT !["rx"] = "returned"]
    /\ UNCHANGED loc
    /\ RecvUnchanged

\* a pass that finds nothing left to read: break
RecvNothingLeft ==
    LET l == loc["rx"]
    IN  /\ pc["rx"] = "loop"
        /\ l.i < l.ntries
        /\ nbytes_left(l.buf, l.nbytes) < 1
        /\ pc' = [pc EXCEPT !["rx"] = "returned"]
        /\ loc' = [loc EXCEPT !["rx"].i = @ + 1]
        /\ RecvUnchanged

\* a pass whose conn.recv(nbytes_left) returns a fragment, of no bytes when
\* the peer has closed
RecvRead ==
    LET l == loc["rx"]
        left == nbytes_left(l.buf, l.nbytes)
    IN  /\ pc["rx"] = "loop"
        /\ l.i < l.ntries
        /\ left >= 1
        /\ \E k \in 0..left :
              LET buf == l.buf \o StreamBytes(l.taken, k)
                  done == Len(buf) >= l.nbytes \/ k < 1
              IN  /\ l.eof => k = 0
                  /\ pc' = [pc EXCEPT !["rx"] =
                               IF done THEN "returned" ELSE "loop"]
                  /\ loc' = [loc EXCEPT !["rx"] =
                                [l EXCEPT !.buf = buf, !.i = @ + 1,
                                          !.nreads = @ + 1, !.fragment = k,
                                          !.taken = @ + k,
                                          !.eof = (k = 0)]]
        /\ RecvUnchanged

\* a pass whose conn.recv raises socket.timeout: pass
RecvTimeout ==
    LET l == loc["rx"]
    IN  /\ pc["rx"] = "loop"
        /\ l.i < l.ntries
        /\ nbytes_left(l.buf, l.nbytes) >= 1
        /\ ~l.eof
        /\ pc' = pc
        /\ loc' = [loc EXCEPT !["rx"] =
                      [l EXCEPT !.i = @ + 1, !.nreads = @ + 1,
                                !.ntimeouts = @ + 1]]
        /\ RecvUnchanged

\* a pass of the loop of recv_fragment
RecvPass == RecvExhausted \/ RecvNothingLeft \/ RecvRead \/ RecvTimeout

NextRecv == RecvCall \/ RecvReset \/ RecvPass

SpecRecv == InitRecv /\ [][NextRecv]_vars

\* the thread in recv_fragment runs as long as it can; no one need call
SpecRecvLive == SpecRecv /\ WF_vars(RecvPass)

Max(a, b) == IF a > b THEN a ELSE b

\* what holds of a call of recv_fragment while it runs and when it has
\* returned
RecvFragmentBounded ==
    LET l == loc["rx"]
    IN  /\ l.nreads <= l.ntries
        /\ l.ntimeouts <= l.i
        /\ l.i <= l.ntries
        /\ Len(l.buf) <= Max(Len(l.buf0), l.nbytes)
        /\ l.buf = l.buf0 \o StreamBytes(l.taken0, l.taken - l.taken0)
        /\ (pc["rx"] = "loop" /\ l.nreads > l.ntimeouts) =>
              /\ Len(l.buf) < l.nbytes
              /\ l.fragment >= 1
        /\ pc["rx"] = "returned" =>
              \/ Len(l.buf) >= l.nbytes
              \/ l.fragment = 0
              \/ l.i = l.ntries

\* C38: recv_fragment(conn, nbytes, ntries=n) makes at most n reads of the
\* socket and always returns: it stops as soon as len(buf) >= nbytes, a read
\* returns no bytes, or the n tries are used; a timeout of a read is
\* swallowed and uses a try; on return len(buf) is at most the larger of its
\* length at the call and nbytes, and the bytes it held are kept with the new
\* ones appended.
C38_RecvFragmentReturns ==
    /\ []RecvFragmentBounded
    /\ (pc["rx"] = "loop") ~> (pc["rx"] = "returned")

\* a call has used all of its MaxTries tries and returned with the buffer
\* complete, after a timeout and fragments appended to the bytes of an
\* earlier call
C38_Witness ==
    LET l == loc["rx"]
    IN  /\ pc["rx"] = "returned"
        /\ l.ntries = MaxTries
        /\ l.ntimeouts = 1
        /\ l.nreads = MaxTries
        /\ Len(l.buf0) > 0
        /\ l.taken0 > 0
        /\ Len(l.buf) = l.nbytes

-----------------------------------------------------------------------------
(* The reception of a request, one recv_request_fragment at a time, from a
   client that sends its requests back to back, whole or in two segments,
   and may close at any point.  recv with MSG_WAITALL returns when the bytes
   asked for have arrived or the peer has closed. *)

\* the connection whose client sends
Sender == 1

\* the requests the client may send as its i-th, with transaction id <<1, i>>:
\* of every function, 0x0f and 0x10 with byte counts of 0, 1, 2 and 4, and
\* of unknown functions
StreamRequests(i) ==
    {NetRequest(Sender, i, fc, 0, Word(1)) : fc \in {1, 3, 2, 144}}
    \cup {NetRequest(Sender, i, 5, 3, <<255, 0>>),
          NetRequest(Sender, i, 6, 0, <<Sender, i>>)}
    \cup {<<Sender, i, 0, 0>> \o ProperLen(13 + Len(d)) \o <<17, 15>>
          \o Word(0) \o Word(8 * Len(d)) \o <<Len(d)>> \o d :
             d \in {<<>>, <<165>>, <<165, 60>>}}
    \cup {<<Sender, i, 0, 0>> \o ProperLen(13 + Len(d)) \o <<17, 16>>
          \o Word(0) \o Word(1) \o <<Len(d)>> \o d :
             d \in {<<>>, <<0, 123>>, <<0, 1, 0, 2>>}}

\* where the client may cut a request in two segments: inside the header,
\* before the byte count, before the data
SplitAt == {5, 12, 13}

\* the segments a request may be sent in
Segments(req) ==
    {<<req, <<>> >>}
    \cup {<<SubSeq(req, 1, k), SubSeq(req, k + 1, Len(req))>> :
             k \in {x \in SplitAt : x < Len(req)}}

\* get_request reading a byte count and data after every header
has_extension_always(buf) == TRUE

\* get_request goes on to read the byte count and the data
has_extension(buf) == buf[8] \in {15, 16}

\* msg_nbytes of the third recv_request_fragment of get_request
extension_nbytes(buf) == min_msg_len + 1 + buf[13]

InitStream ==
    /\ memspace = MemoryManagerInit(Blen, W16len, W32len, W64len)
    /\ prev = memspace
    /\ conn = "none"
    /\ task = "none"
    /\ preset = NoPreset
    /\ one_shot \in BOOLEAN
    /\ request = <<>>
    /\ response = <<>>
    /\ outcome = "idle"
    /\ closed_by = "none"
    /\ naccepted = 0
    /\ call = NoCall
    /\ ncalls = 0
    /\ lock = "none"
    /\ pc = [h \in Conns |-> "none"]
    /\ loc = [h \in Conns |-> NoHandler]
    /\ committed = <<>>
    /\ sockets = [c \in Conns |->
                     [state |-> "none", inbox |-> <<>>, nsent |-> 0,
                      log |-> <<>>, pending |-> <<>>, peer |-> "open",
                      rst |-> FALSE]]
    /\ modules = [k \in 0..MaxConns |->
                     IF k = 0 THEN TemplateModule ELSE NoModule]

StreamUnchanged ==
    UNCHANGED <<memspace, prev, conn, task, preset, one_shot, request,
                response, outcome, closed_by, naccepted, call, ncalls, lock,
                committed, modules>>

\* the client begins a request: the first segment arrives
StreamSend ==
    LET so == sockets[Sender]
    IN  \E req \in StreamRequests(so.nsent + 1) :
            \E seg \in Segments(req) :
                /\ so.state = "open"
                /\ so.peer = "open"
                /\ so.pending = <<>>
                /\ so.nsent < MaxSends
                /\ sockets' = [sockets EXCEPT
                                  ![Sender].inbox = @ \o seg[1],
                                  ![Sender].nsent = @ + 1,
                                  ![Sender].pending = seg[2],
                                  ![Sender].log =
                                      Append(@, LogEntry("sent", 0, req))]
                /\ UNCHANGED <<pc, loc>>
                /\ StreamUnchanged

\* the second segment of the request arrives
StreamSendRest ==
    LET so == sockets[Sender]
    IN  /\ so.state = "open"
        /\ so.peer = "open"
        /\ so.pending # <<>>
        /\ sockets' = [sockets EXCEPT ![Sender].inbox = @ \o so.pending,
                                      ![Sender].pending = <<>>]
        /\ UNCHANGED <<pc, loc>>
        /\ StreamUnchanged

\* the client closes its end, with what it has not sent yet never sent:
\* with a FIN, or with a reset, which it also sends when it closes with a
\* response it has not read
StreamClose ==
    LET so == sockets[Sender]
        answered == \E k \in 1..Len(so.log) : so.log[k].op = "send"
    IN  /\ so.state = "open"
        /\ so.peer = "open"
        /\ \E how \in {"closed", "reset"}, unread \in BOOLEAN :
              /\ unread => answered
              /\ sockets' = [sockets EXCEPT
                                ![Sender].peer = how,
                                ![Sender].rst = how = "reset" \/ unread]
        /\ UNCHANGED <<pc, loc>>
        /\ StreamUnchanged

\* the listener accepts the connection of the one client there is
StreamAccept ==
    /\ naccepted < Sender
    /\ NetAccept

\* recv(n, MSG_WAITALL) on the socket of handler h returns
Arrived(h, n) ==
    \/ Len(sockets[ConnOf(h)].inbox) >= n
    \/ sockets[ConnOf(h)].peer # "open"

\* handle_request: select reports the handler's socket readable
StreamSelect(h) ==
    /\ pc[h] = "select"
    /\ Arrived(h, 1)
    /\ pc' = [pc EXCEPT ![h] = "header"]
    /\ UNCHANGED <<loc, sockets>>
    /\ StreamUnchanged

\* handle_request: nothing arrives and the client does not close for the
\* timeout of select; handle_request returns 0, service_client with one_shot
\* leaves for the shutdown and close, its loop calls handle_request again
StreamSelectTimeout(h) ==
    /\ pc[h] = "select"
    /\ ~Arrived(h, 1)
    /\ pc' = [pc EXCEPT ![h] =
                 IF LoopExit(one_shot, handle_request_timeout(memspace))
                        = "none"
                 THEN "select" ELSE "close"]
    /\ UNCHANGED <<loc, sockets>>
    /\ StreamUnchanged

\* what a recv_request_fragment of get_request that gave r leaves: the
\* fragment is off the socket; an error ends service_client, a complete
\* request goes to its handler, the next fragment is waited for otherwise
Fragment(h, r, complete, next) ==
    LET c == ConnOf(h)
        entry == IF r.err # "none" THEN <<LogEntry("short", h, r.buf)>>
                 ELSE IF complete THEN <<LogEntry("recv", h, r.buf)>>
                 ELSE <<>>
    IN  /\ sockets' = [sockets EXCEPT ![c].inbox = r.wire,
                                      ![c].log = @ \o entry]
        /\ loc' = [loc EXCEPT ![h].request = r.buf]
        /\ pc' = [pc EXCEPT ![h] = IF r.err # "none" THEN "close"
                                   ELSE IF complete THEN "service"
                                   ELSE next]
        /\ StreamUnchanged

\* get_request: the first recv_request_fragment, of the 12 bytes every
\* request has
RecvHeader(h) ==
    LET r == recv_request_fragment(FieldbusMessage(0),
                                   sockets[ConnOf(h)].inbox, min_msg_len)
    IN  /\ pc[h] = "header"
        /\ Arrived(h, min_msg_len)
        /\ Fragment(h, r, r.err = "none" /\ ~has_extension(r.buf), "count")

\* get_request: the second recv_request_fragment, of the byte count
RecvCount(h) ==
    LET r == recv_request_fragment(loc[h].request, sockets[ConnOf(h)].inbox,
                                   min_msg_len + 1)
    IN  /\ pc[h] = "count"
        /\ Arrived(h, 1)
        /\ Fragment(h, r, FALSE, "data")

\* get_request: the third recv_request_fragment, of the data
RecvData(h) ==
    LET nbytes == extension_nbytes(loc[h].request)
        r == recv_request_fragment(loc[h].request, sockets[ConnOf(h)].inbox,
                                   nbytes)
    IN  /\ pc[h] = "data"
        /\ Arrived(h, nbytes - Len(loc[h].request))
        /\ Fragment(h, r, TRUE, "service")

NextStream ==
    \/ StreamAccept
    \/ \E h \in Conns : CreateBackend(h)
    \/ StreamSend
    \/ StreamSendRest
    \/ StreamClose
    \/ \E h \in Conns : StreamSelect(h)
    \/ \E h \in Conns : StreamSelectTimeout(h)
    \/ \E h \in Conns : RecvHeader(h)
    \/ \E h \in Conns : RecvCount(h)
    \/ \E h \in Conns : RecvData(h)
    \/ \E h \in Conns : Service(h)
    \/ \E h \in Conns : Send(h)
    \/ \E h \in Conns : Close(h)

SpecStream == InitStream /\ [][NextStream]_vars

\* the messages of the entries of kind op in the log of socket c, in order
Logged(c, op) ==
    LET Pick(e) == e.op = op
        picked == SelectSeq(sockets[c].log, Pick)
    IN  [k \in 1..Len(picked) |-> picked[k].msg]

\* the bytes of the messages of msgs, one after the other
RECURSIVE Concat(_)
Concat(msgs) == IF msgs = <<>> THEN <<>> ELSE Head(msgs) \o Concat(Tail(msgs))

\* the bytes handler h has taken off its socket
Consumed(h) ==
    Concat(Logged(ConnOf(h), "recv")) \o Concat(Logged(ConnOf(h), "short"))
    \o (IF pc[h] \in {"count", "data"} THEN loc[h].request ELSE <<>>)

\* the length the claim gives the request whose first bytes are buf
FrameLen(buf) == IF buf[8] \in {15, 16} THEN 13 + buf[13] ELSE 12

\* handler h has a complete request, which its handler serves or has served
HasRequest(h) ==
    /\ pc[h] \in {"service", "send", "select", "close", "done"}
    /\ Logged(ConnOf(h), "recv") # <<>>

\* C31: a handler is dispatched only after exactly 12 bytes have been received
\* for functions other than 0x0f and 0x10 and exactly 13 + byte_count bytes
\* for 0x0f and 0x10, byte_count being byte 12, and no byte of the following
\* request is taken off the socket, whatever the function.
C31_DispatchOnExactlyOneRequest ==
    \A h \in Conns :
        pc[h] \notin {"none"} =>
            LET c == ConnOf(h)
                sent == Logged(c, "sent")
                recvd == Logged(c, "recv")
            IN  /\ Consumed(h) \o sockets[c].inbox \o sockets[c].pending
                      = Concat(sent)
                /\ HasRequest(h) =>
                      /\ Len(recvd) <= Len(sent)
                      /\ \A k \in 1..Len(recvd) :
                            /\ recvd[k] = sent[k]
                            /\ Len(recvd[k]) = FrameLen(recvd[k])
                      /\ loc[h].request = recvd[Len(recvd)]
                      /\ sockets[c].inbox \o sockets[c].pending
                            = Concat(SubSeq(sent, Len(recvd) + 1, Len(sent)))

\* a read request has been served with the whole of a 0x10 request, sent
\* behind it, left on the socket
C31_Witness ==
    LET so == sockets[Sender]
        sent == Logged(Sender, "sent")
    IN  /\ HasRequest(Sender)
        /\ pc[Sender] = "close"
        /\ Len(sent) = 2
        /\ sent[1][8] = 3
        /\ sent[2][8] = 16
        /\ Len(so.inbox) > min_msg_len + 1
        /\ so.inbox = sent[2]
        /\ Logged(Sender, "send") # <<>>

-----------------------------------------------------------------------------
(* Tasks calling get_data, set_data, get_bits and set_bits at the same time,
   one statement of a call at a time.  What a call does before `with
   self.lock` and after it is local to the task, but for the length of the
   section, which the bounds are computed from before the lock is taken. *)

Tasks == {"t1", "t2"}

\* the calls a task may make: <<op, section, addr, n, data>>.  The windows
\* of set_bits: two that share the last byte and do not overlap, one across
\* the two bytes, the empty window at 0, whose patch raises OverflowError
\* inside the lock when a bit of the section is set, one that begins where
\* the section ends; get_data past the end of words16 raises IndexError
\* before the lock is taken
RmwCalls ==
    {<<"set_bits", "bits", 0, 3, <<5>> >>,
     <<"set_bits", "bits", 3, 5, <<21>> >>,
     <<"set_bits", "bits", 3, 5, <<0>> >>,
     <<"set_bits", "bits", 5, 6, <<42>> >>,
     <<"set_bits", "bits", 0, 0, <<>> >>,
     <<"set_bits", "bits", 16, 1, <<1>> >>,
     <<"get_bits", "bits", 0, 8, <<>> >>,
     <<"set_data", "words16", 0, 1, <<1, 2>> >>,
     <<"get_data", "words16", 0, 1, <<>> >>,
     <<"get_data", "words16", W16len, 1, <<>> >>}

NoBounds ==
    [err |-> "none", left_byte |-> 0, right_byte |-> 0, right_none |-> FALSE]

\* a task's locals in a call: the arguments, left_byte and right_byte, masks,
\* mem_slice or data, patched_bytes, the error raised, whether the call
\* has held the lock, whether it took the lock after a call had failed
\* holding it, whether another call was under way when it began or ended
RmwLocals ==
    [op |-> "none", section |-> "none", addr |-> 0, n |-> 0, data |-> <<>>,
     b |-> NoBounds, masks |-> <<>>, mem_slice |-> <<>>, patched |-> <<>>,
     err |-> "none", held |-> FALSE, after |-> FALSE, overlapped |-> FALSE]

InitRmw ==
    /\ memspace = MemoryManagerInit(Blen, W16len, W32len, W64len)
    /\ prev = memspace
    /\ conn = "none"
    /\ task = "none"
    /\ preset = NoPreset
    /\ one_shot = FALSE
    /\ request = <<>>
    /\ response = <<>>
    /\ outcome = "idle"
    /\ closed_by = "none"
    /\ naccepted = 0
    /\ call = NoCall
    /\ ncalls = 0
    /\ lock = "none"
    /\ pc = [t \in Tasks |-> "idle"]
    /\ loc = [t \in Tasks |-> RmwLocals]
    /\ committed = <<>>
    /\ NoNet

RmwUnchanged ==
    UNCHANGED <<conn, task, preset, one_shot, request, response, outcome,
                closed_by, naccepted, committed, net>>

\* the statements of a call from its first to the end of its `with` block
InCall == {"bounds", "acquire", "read", "patch", "write", "release"}

\* the statements inside `with self.lock`
InLock == {"read", "patch", "write", "release"}

\* the end of `with self.lock` unless an error left the block
with_exit_unless_raised(holder, t, raised) ==
    IF holder = t /\ ~raised THEN "none" ELSE holder

\* the end of `with self.lock`, by the last statement of the block or by an
\* error (raised): the lock is released
with_exit(holder, t, raised) == IF holder = t THEN "none" ELSE holder

\* before any task runs, the bits section has been filled by a set_data
Fill ==
    LET nbytes == Len(memspace["bits"])
        r == set_data(memspace, "bits", 0, nbytes, DataBytes(nbytes))
    IN  /\ \A t \in Tasks : pc[t] = "idle"
        /\ ncalls = 0
        /\ call = NoCall
        /\ memspace' = r.mem
        /\ prev' = r.mem
        /\ call' = CallAfter(call, "set_data", "bits", 0, nbytes,
                             DataBytes(nbytes), r.err, <<>>)
        /\ UNCHANGED <<ncalls, lock, pc, loc>>
        /\ RmwUnchanged

\* task t calls a memory operation
RmwCall(t) ==
    \E c \in RmwCalls :
        LET busy == \E u \in Tasks \ {t} : pc[u] \in InCall
        IN  /\ pc[t] \in {"idle", "returned"}
            /\ ncalls < MaxCalls
            /\ ncalls' = ncalls + 1
            /\ pc' = [pc EXCEPT ![t] = "bounds"]
            /\ loc' = [u \in Tasks |->
                          IF u = t
                          THEN [RmwLocals EXCEPT !.op = c[1], !.section = c[2],
                                                 !.addr = c[3], !.n = c[4],
                                                 !.data = c[5],
                                                 !.overlapped = busy]
                          ELSE [loc[u] EXCEPT !.overlapped =
                                                 @ \/ pc[u] \in InCall]]
            /\ UNCHANGED <<memspace, prev, call, lock>>
            /\ RmwUnchanged

\* what a call does before it takes the lock: check_bounds in get_data and
\* set_data, calc_masks and calc_mem_slice_byte_bounds in get_bits and
\* set_bits; IndexError ends the call
RmwBounds(t) ==
    LET l == loc[t]
        bits == l.op \in {"get_bits", "set_bits"}
        b == IF bits THEN calc_mem_slice_byte_bounds(memspace, l.addr, l.n)
             ELSE [NoBounds EXCEPT !.err =
                      IF check_bounds(memspace, l.section, l.addr, l.n)
                      THEN "none" ELSE "IndexError"]
    IN  /\ pc[t] = "bounds"
        /\ pc' = [pc EXCEPT ![t] = IF b.err # "none" THEN "failed"
                                   ELSE "acquire"]
        /\ loc' = [loc EXCEPT ![t].b = b, ![t].err = b.err,
                              ![t].masks = IF bits
                                           THEN calc_masks(l.addr, l.n)
                                           ELSE <<>>]
        /\ UNCHANGED <<memspace, prev, call, ncalls, lock>>
        /\ RmwUnchanged

\* with self.lock: on entry
RmwAcquire(t) ==
    /\ pc[t] = "acquire"
    /\ CanAcquire(lock)
    /\ lock' = t
    /\ pc' = [pc EXCEPT ![t] = IF loc[t].op = "set_data" THEN "write"
                               ELSE "read"]
    /\ loc' = [loc EXCEPT ![t].held = TRUE,
                          ![t].after = \E u \in Tasks :
                                          pc[u] = "failed" /\ loc[u].held]
    /\ UNCHANGED <<memspace, prev, call, ncalls>>
    /\ RmwUnchanged

\* the read of the slice, in get_data, get_bits and set_bits
RmwRead(t) ==
    LET l == loc[t]
        wlen == get_section_word_len(l.section)
        mem_slice == IF l.op = "get_data"
                     THEN Slice(memspace[l.section], l.addr * wlen,
                                l.addr * wlen + l.n * wlen)
                     ELSE BoundsSlice(memspace["bits"], l.b)
    IN  /\ pc[t] = "read"
        /\ pc' = [pc EXCEPT ![t] = IF l.op = "set_bits" THEN "patch"
                                   ELSE "release"]
        /\ loc' = [loc EXCEPT ![t].mem_slice = mem_slice]
        /\ UNCHANGED <<memspace, prev, call, ncalls, lock>>
        /\ RmwUnchanged

\* set_bits: the patch of the slice, each local bound to its value by the
\* statement that computes it; int.to_bytes may raise OverflowError, which
\* leaves the `with` block and the call
RmwPatch(t) ==
    LET l == loc[t]
    IN  /\ pc[t] = "patch"
        /\ \E data_bits \in
                  {from_bytes(lshift_bits(l.data, l.addr % BITS_PER_BYTE))},
              masks_bits \in {from_bytes(l.masks)},
              mem_slice_bits \in {from_bytes(l.mem_slice)} :
              \E patched_bits \in
                    {BitOr(BitAnd(data_bits, masks_bits),
                           BitAndNot(mem_slice_bits, masks_bits))} :
                  IF to_bytes_overflows(patched_bits, Len(l.masks))
                  THEN /\ pc' = [pc EXCEPT ![t] = "failed"]
                       /\ lock' = with_exit(lock, t, TRUE)
                       /\ loc' = [loc EXCEPT ![t].err = "OverflowError"]
                  ELSE /\ pc' = [pc EXCEPT ![t] = "write"]
                       /\ lock' = lock
                       /\ loc' = [loc EXCEPT ![t].patched =
                                     to_bytes(patched_bits, Len(l.masks))]
        /\ UNCHANGED <<memspace, prev, call, ncalls>>
        /\ RmwUnchanged

\* the write of the slice, in set_data and set_bits
RmwWrite(t) ==
    LET l == loc[t]
        wlen == get_section_word_len(l.section)
    IN  /\ pc[t] = "write"
        /\ memspace' =
              IF l.op = "set_data"
              THEN [memspace EXCEPT ![l.section] =
                       SliceAssign(@, l.addr * wlen,
                                   l.addr * wlen + l.n * wlen, l.data)]
              ELSE [memspace EXCEPT !["bits"] =
                       BoundsSliceAssign(@, l.b, l.patched)]
        /\ pc' = [pc EXCEPT ![t] = "release"]
        /\ UNCHANGED <<prev, call, ncalls, lock, loc>>
        /\ RmwUnchanged

\* with self.lock: on exit; the call returns
RmwRelease(t) ==
    /\ pc[t] = "release"
    /\ lock' = with_exit(lock, t, FALSE)
    /\ pc' = [pc EXCEPT ![t] = "returned"]
    /\ loc' = [u \in Tasks |->
                  IF u = t THEN loc[u]
                  ELSE [loc[u] EXCEPT !.overlapped = @ \/ pc[u] \in InCall]]
    /\ UNCHANGED <<memspace, prev, call, ncalls>>
    /\ RmwUnchanged

\* the statements of a call, which a task runs by itself
RmwStep(t) ==
    \/ RmwBounds(t)
    \/ RmwAcquire(t)
    \/ RmwRead(t)
    \/ RmwPatch(t)
    \/ RmwWrite(t)
    \/ RmwRelease(t)

NextRmw == Fill \/ \E t \in Tasks : RmwCall(t) \/ RmwStep(t)

SpecRmw == InitRmw /\ [][NextRmw]_vars

\* every task that can go on with its call, the lock being free when it
\* waits for it, is scheduled in the end
SpecRmwLive ==
    /\ SpecRmw
    /\ \A t \in Tasks : WF_vars(RmwStep(t))

\* task t has returned from a set_bits on a window inside the section
SetBitsReturned(t) ==
    /\ pc[t] = "returned"
    /\ loc[t].op = "set_bits"
    /\ ValidBitWindow(loc[t], prev)

\* the windows of the calls of t and u do not overlap and share a byte
DisjointInOneByte(t, u) ==
    /\ \/ loc[t].addr + loc[t].n <= loc[u].addr
       \/ loc[u].addr + loc[u].n <= loc[t].addr
    /\ FirstByte(loc[t]) <= LastByte(loc[u])
    /\ FirstByte(loc[u]) <= LastByte(loc[t])

\* bit k lies in the window of the call of t
InWindowOf(t, k) == loc[t].addr <= k /\ k < loc[t].addr + loc[t].n

\* t and u have each made one call, a set_bits, on windows that do not
\* overlap and share a byte, and both have returned
BothSetBits(t, u) ==
    /\ t # u
    /\ ncalls = Cardinality({t, u})
    /\ SetBitsReturned(t)
    /\ SetBitsReturned(u)
    /\ DisjointInOneByte(t, u)

\* C33: set_bits is an atomic read-modify-write: when two tasks call set_bits
\* at the same time on windows that do not overlap and share a byte, in every
\* interleaving both windows hold the values written and the bits outside
\* both windows are unchanged.
C33_SetBitsAtomic ==
    \A t \in Tasks, u \in Tasks :
        BothSetBits(t, u) =>
            /\ get_bits(memspace, loc[t].addr, loc[t].n).data
                  = LowBits(loc[t].data, loc[t].n)
            /\ Len(memspace["bits"]) = Len(prev["bits"])
            /\ \A k \in 0..(NCoils(prev["bits"]) - 1) :
                  (~InWindowOf(t, k) /\ ~InWindowOf(u, k)) =>
                      Coil(memspace["bits"], k) = Coil(prev["bits"], k)

\* the two calls were under way at the same time, on a section that held
\* 1-bits inside and outside the windows, and both changed their window
C33_Witness ==
    \E t \in Tasks, u \in Tasks :
        /\ BothSetBits(t, u)
        /\ loc[t].overlapped
        /\ loc[u].overlapped
        /\ prev["bits"] # bytearray(Len(prev["bits"]))
        /\ get_bits(prev, loc[t].addr, loc[t].n).data
              # LowBits(loc[t].data, loc[t].n)
        /\ get_bits(prev, loc[u].addr, loc[u].n).data
              # LowBits(loc[u].data, loc[u].n)

\* C35: the lock is released on every exit path of get_data, set_data,
\* get_bits and set_bits, also when an error is raised while it is held; so
\* no task waits for the lock for ever and every memory operation returns or
\* fails in the end, under fair scheduling: of the calls made, MaxCalls at
\* most, none is under way for ever.
C35_LockAlwaysReleased ==
    /\ [](\A t \in Tasks : lock = t => pc[t] \in InLock)
    /\ <>[](\A t \in Tasks : pc[t] \notin InCall)

\* a set_bits has failed with OverflowError while it held the lock, and a
\* call that took the lock after that has returned
C35_Witness ==
    \E t \in Tasks, u \in Tasks :
        /\ pc[t] = "failed"
        /\ loc[t].err = "OverflowError"
        /\ loc[t].held
        /\ pc[u] = "returned"
        /\ loc[u].after
        /\ lock = "none"

====
